---------------------------- MODULE Spec2Model ----------------------------
(***************************************************************************)
(* A model of the judging and timing engine of CYCLES                      *)
(* (src/components/GameCanvas.tsx) and of the part of src/App.tsx that     *)
(* receives the engine's final statistics.                                 *)
(*                                                                         *)
(* Conventions.                                                            *)
(*  - Times are integer milliseconds of the engine clock                   *)
(*    currentTimeMs = audioContext.currentTime * 1000 - startTime          *)
(*                    - audioOffset.                                       *)
(*  - hitObjects is a TLA+ sequence, so the note indices are 1..Len; the   *)
(*    code's index i is the model's index i + 1.                           *)
(*  - note.endTime = 0 stands for the code's undefined endTime: the code   *)
(*    only ever tests `if (note.endTime)`, which is false for both.        *)
(*  - Numbers the code computes in floating point (accuracy, the display   *)
(*    score) are computed exactly: accuracy is a reduced fraction          *)
(*    [num, den], the display score an integer floor division.             *)
(***************************************************************************)
EXTENDS Integers, Sequences, FiniteSets, TLC

VARIABLES
    hitObjects,     \* beatmap.hitObjects: the timeline, never mutated
    clock,          \* the engine clock (ms) as the next handler will read it
    state,          \* state.current (GameStateRef), together with React's
                    \* currentStats, the judgement-event stream (events) and
                    \* the stream of spawned flashes (flashEvents)
    onendedStats,   \* the currentStats value the source.onended closure holds
    sourceNode,     \* the AudioBufferSourceNode of the run: "scheduled",
                    \* "stopped" (stop() called, its ended event not yet
                    \* delivered) or "ended"
    parser,         \* parseOsuText: the chart text, the position of the
                    \* for-loop in it, section, circleSize, data.hitObjects;
                    \* generateDemoTrack: the loop variable t and hitObjects
    gameState,      \* App: "MENU" | "PLAYING" | "RESULTS"
    app,            \* App: library, selectedSongIndex, loading, error and the
                    \* handleFileUpload call in flight
    stats,          \* App: <<>> for null, <<GameStats>> otherwise
    unmappedKeys    \* history: the number of key events delivered to the
                    \* listeners whose code is not a key of INPUT_MAPPING

vars ==
    <<hitObjects, clock, state, onendedStats, sourceNode, parser, gameState,
      app, stats, unmappedKeys>>

-----------------------------------------------------------------------------
(* Program constants *)

HIT_WINDOW_PERFECT == 80
HIT_WINDOW_GOOD == 120
HIT_WINDOW_BAD == 160

COLUMNS == 8

\* gameLoop: notes older than this are no longer in visibleNotes
VISIBLE_PAST_MS == 200

\* noteSpeed (0.8) * 1000: the look-ahead horizon of visibleNotes
NOTE_SPEED_MS == 800

\* the playback effect schedules the source 1.2 s ahead: the engine clock
\* starts at -1200
START_DELAY_MS == 1200

JACK_WINDOW == 130

\* detectPatterns: a processed note counts when its time is less than this
\* far from the engine clock
PATTERN_WINDOW == 40

MAX_DEVIATIONS == 30

Lanes == 0 .. (COLUMNS - 1)

InputCodes == {"KeyD", "KeyF", "KeyJ", "KeyK"}

INPUT_MAPPING ==
    [code \in InputCodes |->
        CASE code = "KeyD" -> <<4, 5>>
          [] code = "KeyF" -> <<6, 7>>
          [] code = "KeyJ" -> <<0, 1>>
          [] code = "KeyK" -> <<2, 3>>]

KEY_INDEX_MAP ==
    [code \in InputCodes |->
        CASE code = "KeyD" -> 0
          [] code = "KeyF" -> 1
          [] code = "KeyJ" -> 2
          [] code = "KeyK" -> 3]

-----------------------------------------------------------------------------
(* Bounds of the model *)

\* the clock is not advanced beyond this instant
MaxClock == 700

\* no handler appends to the judgement-event stream beyond this length
MaxEvents == 6

\* no key-down is taken once this many geometric flashes have been spawned
MaxFlashes == 3

\* a chart text has at most this many HitObjects lines
MaxLines == 3

\* a chart text has at most this many TimingPoints lines
MaxPoints == 3

-----------------------------------------------------------------------------
(* Helpers *)

Abs(x) == IF x < 0 THEN -x ELSE x

RECURSIVE GCD(_, _)
GCD(a, b) == IF b = 0 THEN a ELSE GCD(b, a % b)

\* the exact value n / d as a reduced fraction (d > 0)
Fraction(n, d) == LET g == GCD(n, d) IN [num |-> n \div g, den |-> d \div g]

HitObject(t, col, e) == [time |-> t, column |-> col, endTime |-> e]

-----------------------------------------------------------------------------
(* The charts and clock samples the model explores.  Each scenario is a    *)
(* timeline (sorted by time, lanes in 0..7, endTime > time for holds), the *)
(* key codes the player uses, the instants at which the audio clock is     *)
(* read by a handler, and the length of the track.                         *)

\* one tap note; the samples put diff = note.time - clock on and around every
\* window edge: 170 160 159 150 121 120 81 80 0 -80 -81 -120 -121 -160 -161
\* -200 -201
WindowScenario ==
    [hitObjects |-> << HitObject(200, 0, 0) >>,
     keys |-> {"KeyJ"},
     samples |-> {30, 40, 41, 50, 79, 80, 119, 120, 200, 280, 281, 320, 321,
                  360, 361, 400, 401, 500},
     duration |-> 500]

\* three tap notes in the two lanes of KeyJ, 60 ms apart
NearestScenario ==
    [hitObjects |-> << HitObject(200, 0, 0), HitObject(260, 1, 0),
                       HitObject(320, 0, 0) >>,
     keys |-> {"KeyJ"},
     samples |-> {100, 200, 230, 260, 300, 370, 440, 490, 530, 600},
     duration |-> 600]

\* two hold notes and a tap, on the lanes of KeyJ and KeyK
HoldScenario ==
    [hitObjects |-> << HitObject(200, 0, 500), HitObject(200, 2, 0),
                       HitObject(300, 1, 450) >>,
     keys |-> {"KeyJ", "KeyK"},
     samples |-> {190, 230, 300, 380, 470, 520, 600},
     duration |-> 600]

\* four tap notes in the lanes of KeyJ; at clock 200 their diffs are 0, 81,
\* 150 and 200
GradesScenario ==
    [hitObjects |-> << HitObject(200, 0, 0), HitObject(281, 1, 0),
                       HitObject(350, 0, 0), HitObject(400, 1, 0) >>,
     keys |-> {"KeyJ"},
     samples |-> {200, 321, 440, 520, 580, 650},
     duration |-> 650]

Scenarios == {WindowScenario, NearestScenario, HoldScenario, GradesScenario}

\* the end-to-end run: four tap notes on lane 0, the lane-0 control (KeyJ)
\* pressed at 1000, 2005, 3200 and 5500, a frame at most every 40 ms
EndToEndScenario ==
    [hitObjects |-> << HitObject(1000, 0, 0), HitObject(2000, 0, 0),
                       HitObject(3000, 0, 0), HitObject(4000, 0, 0) >>,
     keys |-> {"KeyJ"},
     presses |-> {1000, 2005, 3200, 5500},
     framePeriods |-> {10, 20, 40},
     duration |-> 5600]

\* a chord: three tap notes at the same time on three lanes (two of KeyJ, one
\* of KeyK); the samples allow the three to be judged within 30 ms (190, 200,
\* 220) and 50 ms apart (150, 200, 250)
ChordScenario ==
    [hitObjects |-> << HitObject(200, 0, 0), HitObject(200, 1, 0),
                       HitObject(200, 2, 0) >>,
     keys |-> {"KeyJ", "KeyK"},
     samples |-> {150, 190, 200, 220, 250, 390},
     duration |-> 390]

\* two hold notes one after the other on the same lane of KeyJ
TwoHoldsScenario ==
    [hitObjects |-> << HitObject(200, 0, 250), HitObject(300, 0, 400),
                       HitObject(300, 2, 0) >>,
     keys |-> {"KeyJ", "KeyK"},
     samples |-> {200, 260, 300, 420, 500},
     duration |-> 500]

\* a tap note on each lane of KeyJ, 280 ms apart: at clock 330 the first is
\* 130 ms late (in no grade window) and the second 150 ms early (in the Bad
\* window); at 340 both are 140 ms away; at 361 the first is 161 ms late
LateNearestScenario ==
    [hitObjects |-> << HitObject(200, 0, 0), HitObject(480, 1, 0) >>,
     keys |-> {"KeyJ"},
     samples |-> {330, 340, 361, 480, 650},
     duration |-> 650]

\* ties on the lanes of KeyJ: at clock 300 notes 2 (lane 1) and 3 (lane 0)
\* are both on time, and notes 1 and 4 (both lane 0) are both 100 ms away
TieScenario ==
    [hitObjects |-> << HitObject(200, 0, 0), HitObject(300, 1, 0),
                       HitObject(300, 0, 0), HitObject(400, 0, 0) >>,
     keys |-> {"KeyJ"},
     samples |-> {300, 310, 470, 600},
     duration |-> 600]

\* the scenario of the chart being played
Scenario ==
    CHOOSE sc \in Scenarios
                    \cup {EndToEndScenario, ChordScenario, TwoHoldsScenario,
                          LateNearestScenario, TieScenario} :
        sc.hitObjects = hitObjects

-----------------------------------------------------------------------------
(* Scoring: registerHit and updateStats *)

\* fault: HitScore with a Bad worth as much as a Good
HitScore_BadAsGood(type) ==
    CASE type = "perfect" -> 300
      [] type = "good" -> 100
      [] type = "bad" -> 100
      [] OTHER -> 0

\* the points registerHit adds to s.score for a grade
HitScore(type) ==
    CASE type = "perfect" -> 300
      [] type = "good" -> 100
      [] type = "bad" -> 50
      [] OTHER -> 0

\* fault: Accuracy on a scale of 100 instead of 101
Accuracy_Percent(currentPoints, maxPointsSoFar) ==
    IF maxPointsSoFar > 0
    THEN Fraction(currentPoints * 100, maxPointsSoFar)
    ELSE Fraction(100, 1)

\* the accuracy updateStats computes: (currentPoints / maxPointsSoFar) * 101,
\* or 101 when nothing has been judged
Accuracy(currentPoints, maxPointsSoFar) ==
    IF maxPointsSoFar > 0
    THEN Fraction(currentPoints * 101, maxPointsSoFar)
    ELSE Fraction(101, 1)

\* floor((currentPoints / maxMapPoints) * 1010000), or 0 for an empty chart;
\* both arguments are multiples of 50, and the quotient is taken of the two
\* fiftieths so that the product stays within 32 bits on long charts
ScoreDisplay(currentPoints, maxMapPoints) ==
    IF maxMapPoints > 0
    THEN ((currentPoints \div 50) * 1010000) \div (maxMapPoints \div 50)
    ELSE 0

\* fault: updateStats with the display score normalised against the notes
\* judged so far instead of the whole chart
updateStats_AgainstNotesSoFar(s, objs) ==
    LET currentPoints == (s.perfect * 300) + (s.good * 100) + (s.bad * 50)
        hitsSoFar == s.perfect + s.good + s.bad + s.miss
        maxPointsSoFar == hitsSoFar * 300
    IN  [score |-> ScoreDisplay(currentPoints, maxPointsSoFar),
         combo |-> s.combo, maxCombo |-> s.maxCombo,
         perfect |-> s.perfect, good |-> s.good, bad |-> s.bad,
         miss |-> s.miss,
         accuracy |-> Accuracy(currentPoints, maxPointsSoFar)]

\* the GameStats value updateStats hands to setCurrentStats
updateStats(s, objs) ==
    LET currentPoints == (s.perfect * 300) + (s.good * 100) + (s.bad * 50)
        hitsSoFar == s.perfect + s.good + s.bad + s.miss
        maxPointsSoFar == hitsSoFar * 300
        totalMapNotes == Len(objs)
        maxMapPoints == totalMapNotes * 300
    IN  [score |-> ScoreDisplay(currentPoints, maxMapPoints),
         combo |-> s.combo, maxCombo |-> s.maxCombo,
         perfect |-> s.perfect, good |-> s.good, bad |-> s.bad,
         miss |-> s.miss,
         accuracy |-> Accuracy(currentPoints, maxPointsSoFar)]

\* fault: ScoreFold with a Miss that leaves the combo standing
ScoreFold_MissKeepsCombo(s, type) ==
    IF type = "miss"
    THEN [s EXCEPT !.miss = @ + 1]
    ELSE LET c == s.combo + 1
         IN  [s EXCEPT !.combo = c,
                       !.maxCombo = IF c > @ THEN c ELSE @,
                       !.score = @ + HitScore(type),
                       !.perfect = IF type = "perfect" THEN @ + 1 ELSE @,
                       !.good = IF type = "good" THEN @ + 1 ELSE @,
                       !.bad = IF type = "bad" THEN @ + 1 ELSE @]

\* fault: ScoreFold with a Miss that takes maxCombo down with the combo
ScoreFold_MissResetsMaxCombo(s, type) ==
    IF type = "miss"
    THEN [s EXCEPT !.combo = 0, !.maxCombo = 0, !.miss = @ + 1]
    ELSE LET c == s.combo + 1
         IN  [s EXCEPT !.combo = c,
                       !.maxCombo = IF c > @ THEN c ELSE @,
                       !.score = @ + HitScore(type),
                       !.perfect = IF type = "perfect" THEN @ + 1 ELSE @,
                       !.good = IF type = "good" THEN @ + 1 ELSE @,
                       !.bad = IF type = "bad" THEN @ + 1 ELSE @]

\* the ScoreState part of registerHit: counters, combo, score
ScoreFold(s, type) ==
    IF type = "miss"
    THEN [s EXCEPT !.combo = 0, !.miss = @ + 1]
    ELSE LET c == s.combo + 1
         IN  [s EXCEPT !.combo = c,
                       !.maxCombo = IF c > @ THEN c ELSE @,
                       !.score = @ + HitScore(type),
                       !.perfect = IF type = "perfect" THEN @ + 1 ELSE @,
                       !.good = IF type = "good" THEN @ + 1 ELSE @,
                       !.bad = IF type = "bad" THEN @ + 1 ELSE @]

\* fault: a full window that drops the new entry and keeps the oldest
PushDeviation_KeepsOldest(devs, d) ==
    IF Len(devs) >= MAX_DEVIATIONS THEN devs ELSE Append(devs, d)

\* the rolling window of hit deviations after one more hit
PushDeviation(devs, d) ==
    LET pushed == Append(devs, d)
    IN  IF Len(pushed) > MAX_DEVIATIONS THEN Tail(pushed) ELSE pushed

\* fault: registerHit with a score bonus for a jack
registerHit_JackBonus(s, idx, type, col, diffMs, isJack, t, objs) ==
    LET s0 == IF isJack THEN [s EXCEPT !.score = @ + 50] ELSE s
        s1 == ScoreFold(s0, type)
        s2 == IF type = "miss"
              THEN s1
              ELSE [s1 EXCEPT
                      !.hitDeviations =
                          PushDeviation(@, [diff |-> diffMs, time |-> t,
                                            type |-> type]),
                      !.lastHitTimes[col] = t]
        s3 == [s2 EXCEPT
                 !.events = Append(@, [idx |-> idx, type |-> type,
                                       col |-> col, diff |-> diffMs,
                                       isJack |-> isJack, time |-> t])]
    IN  [s3 EXCEPT !.currentStats = updateStats(s3, objs)]

\* fault: registerHit with a jack counting twice towards the combo
registerHit_JackCombo(s, idx, type, col, diffMs, isJack, t, objs) ==
    LET s0 == IF isJack THEN [s EXCEPT !.combo = @ + 1] ELSE s
        s1 == ScoreFold(s0, type)
        s2 == IF type = "miss"
              THEN s1
              ELSE [s1 EXCEPT
                      !.hitDeviations =
                          PushDeviation(@, [diff |-> diffMs, time |-> t,
                                            type |-> type]),
                      !.lastHitTimes[col] = t]
        s3 == [s2 EXCEPT
                 !.events = Append(@, [idx |-> idx, type |-> type,
                                       col |-> col, diff |-> diffMs,
                                       isJack |-> isJack, time |-> t])]
    IN  [s3 EXCEPT !.currentStats = updateStats(s3, objs)]

\* registerHit(type, col, diffMs, isJack), called at engine clock t for note
\* idx (the code's callers add idx to processedIndices just before the call)
registerHit(s, idx, type, col, diffMs, isJack, t, objs) ==
    LET s1 == ScoreFold(s, type)
        s2 == IF type = "miss"
              THEN s1
              ELSE [s1 EXCEPT
                      !.hitDeviations =
                          PushDeviation(@, [diff |-> diffMs, time |-> t,
                                            type |-> type]),
                      !.lastHitTimes[col] = t]
        s3 == [s2 EXCEPT
                 !.events = Append(@, [idx |-> idx, type |-> type,
                                       col |-> col, diff |-> diffMs,
                                       isJack |-> isJack, time |-> t])]
    IN  [s3 EXCEPT !.currentStats = updateStats(s3, objs)]

-----------------------------------------------------------------------------
(* Input: handleInput, handleKeyDown, handleKeyUp *)

\* fault: VisibleInLane without the processedIndices test
VisibleInLane_IgnoringProcessed(s, objs, col, t) ==
    {i \in DOMAIN objs :
        /\ objs[i].column = col
        /\ (objs[i].time - t) < HIT_WINDOW_BAD}

\* handleInput's filter: the unprocessed notes of lane col that are less than
\* HIT_WINDOW_BAD ms in the future
VisibleInLane(s, objs, col, t) ==
    {i \in DOMAIN objs :
        /\ objs[i].column = col
        /\ i \notin s.processedIndices
        /\ (objs[i].time - t) < HIT_WINDOW_BAD}

\* fault: Nearest without the sort, the first candidate in timeline order
Nearest_FirstInTimeline(objs, S, t) ==
    CHOOSE i \in S : \A j \in S : i <= j

\* visibleNotes[0] after the (stable) sort by |time - currentTimeMs|
Nearest(objs, S, t) ==
    CHOOSE i \in S :
        \A j \in S :
            \/ Abs(objs[i].time - t) < Abs(objs[j].time - t)
            \/ /\ Abs(objs[i].time - t) = Abs(objs[j].time - t)
               /\ i <= j

\* fault: a candidate inside a grade window replaces a nearer bestHit that is
\* inside none
Better_PrefersGradable(objs, cand, best, t) ==
    LET InWindow(d) ==
            \/ Abs(d) <= HIT_WINDOW_GOOD
            \/ (d > HIT_WINDOW_GOOD /\ d <= HIT_WINDOW_BAD)
    IN  \/ best = 0
        \/ Abs(objs[cand].time - t) < Abs(objs[best].time - t)
        \/ InWindow(objs[cand].time - t) /\ ~ InWindow(objs[best].time - t)

\* fault: a candidate as near as bestHit replaces it, so that a tie goes to
\* the lane listed last
Better_TieTakesLater(objs, cand, best, t) ==
    best = 0 \/ Abs(objs[cand].time - t) <= Abs(objs[best].time - t)

\* whether a lane's candidate replaces bestHit (0 stands for null)
Better(objs, cand, best, t) ==
    best = 0 \/ Abs(objs[cand].time - t) < Abs(objs[best].time - t)

\* the lanes.forEach of handleInput from lane number k on; best is bestHit so
\* far (0 for null)
RECURSIVE BestHit(_, _, _, _, _, _)
BestHit(s, objs, lanes, t, k, best) ==
    IF k > Len(lanes)
    THEN best
    ELSE LET visibleNotes == VisibleInLane(s, objs, lanes[k], t)
         IN  IF visibleNotes = {}
             THEN BestHit(s, objs, lanes, t, k + 1, best)
             ELSE LET candidate == Nearest(objs, visibleNotes, t)
                  IN  IF Better(objs, candidate, best, t)
                      THEN BestHit(s, objs, lanes, t, k + 1, candidate)
                      ELSE BestHit(s, objs, lanes, t, k + 1, best)

\* fault: Grade with a Perfect window that excludes its edge
Grade_StrictPerfect(diff) ==
    IF Abs(diff) < HIT_WINDOW_PERFECT THEN "perfect"
    ELSE IF Abs(diff) <= HIT_WINDOW_GOOD THEN "good"
    ELSE IF diff > HIT_WINDOW_GOOD /\ diff <= HIT_WINDOW_BAD THEN "bad"
    ELSE "none"

\* fault: Grade with the Bad window on the late side
Grade_BadWhenLate(diff) ==
    IF Abs(diff) <= HIT_WINDOW_PERFECT THEN "perfect"
    ELSE IF Abs(diff) <= HIT_WINDOW_GOOD THEN "good"
    ELSE IF diff < - HIT_WINDOW_GOOD /\ diff >= - HIT_WINDOW_BAD THEN "bad"
    ELSE "none"

\* the grade handleInput gives the matched note, "none" when it falls through
Grade(diff) ==
    IF Abs(diff) <= HIT_WINDOW_PERFECT THEN "perfect"
    ELSE IF Abs(diff) <= HIT_WINDOW_GOOD THEN "good"
    ELSE IF diff > HIT_WINDOW_GOOD /\ diff <= HIT_WINDOW_BAD THEN "bad"
    ELSE "none"

IsJack(timeSinceLastHit) ==
    timeSinceLastHit < JACK_WINDOW /\ timeSinceLastHit > 0

\* holdingIndices is a JavaScript Set: it is kept as the sequence of its
\* members in insertion order
SetAdd(seq, x) ==
    IF \E k \in DOMAIN seq : seq[k] = x THEN seq ELSE Append(seq, x)

SetDelete(seq, x) == SelectSeq(seq, LAMBDA y : y # x)

\* fault: HoldStart without the endTime test, every judged note is held
HoldStart_AnyNote(holding, note, idx) == SetAdd(holding, idx)

\* `if (note.endTime) holdingIndices.add(idx)`
HoldStart(holding, note, idx) ==
    IF note.endTime # 0 THEN SetAdd(holding, idx) ELSE holding

\* fault: a key-down that marks the chosen note processed even when no grade
\* window holds it
handleInputPress_ProcessesUngraded(s, objs, lanes, t, rnd) ==
    LET bestHit == BestHit(s, objs, lanes, t, 1, 0)
    IN  IF bestHit # 0
        THEN LET note == objs[bestHit]
                 diff == note.time - t
                 col == note.column
                 isJack == IsJack(t - s.lastHitTimes[col])
                 type == Grade(diff)
                 s1 == [s EXCEPT !.keyState[col] = TRUE,
                                 !.processedIndices = @ \cup {bestHit}]
             IN  IF type = "none"
                 THEN s1
                 ELSE registerHit(
                        [s1 EXCEPT
                           !.holdingIndices = HoldStart(@, note, bestHit)],
                        bestHit, type, col, diff,
                        IF type = "bad" THEN FALSE ELSE isJack, t, objs)
        ELSE [s EXCEPT !.keyState[lanes[rnd + 1]] = TRUE]

\* the isDown branch of handleInput(lanes, true) up to the call of
\* detectPatterns, at engine clock t; rnd is the value of
\* Math.floor(Math.random() * lanes.length)
handleInputPress(s, objs, lanes, t, rnd) ==
    LET bestHit == BestHit(s, objs, lanes, t, 1, 0)
    IN  IF bestHit # 0
        THEN LET note == objs[bestHit]
                 diff == note.time - t
                 col == note.column
                 isJack == IsJack(t - s.lastHitTimes[col])
                 type == Grade(diff)
                 s1 == [s EXCEPT !.keyState[col] = TRUE]
             IN  IF type = "none"
                 THEN s1
                 ELSE registerHit(
                        [s1 EXCEPT
                           !.processedIndices = @ \cup {bestHit},
                           !.holdingIndices = HoldStart(@, note, bestHit)],
                        bestHit, type, col, diff,
                        IF type = "bad" THEN FALSE ELSE isJack, t, objs)
        ELSE [s EXCEPT !.keyState[lanes[rnd + 1]] = TRUE]

\* spawnGeometricFlash(cols) at engine clock t: the flash is kept as the set
\* of its lanes and the instant it was spawned
spawnGeometricFlash(s, cols, t) ==
    [s EXCEPT !.flashEvents = Append(@, [cols |-> cols, time |-> t])]

\* fault: detectPatterns paying a score bonus for a chord
detectPatterns_ChordBonus(s, objs, t) ==
    LET recentHits == {i \in DOMAIN objs :
                          /\ i \in s.processedIndices
                          /\ Abs(objs[i].time - t) < PATTERN_WINDOW}
        uniqueCols == {objs[i].column : i \in recentHits}
    IN  IF Cardinality(uniqueCols) >= 2
        THEN spawnGeometricFlash([s EXCEPT !.score = @ + 50], uniqueCols, t)
        ELSE s

\* detectPatterns(currentTimeMs)
detectPatterns(s, objs, t) ==
    LET recentHits == {i \in DOMAIN objs :
                          /\ i \in s.processedIndices
                          /\ Abs(objs[i].time - t) < PATTERN_WINDOW}
        uniqueCols == {objs[i].column : i \in recentHits}
    IN  IF Cardinality(uniqueCols) >= 2
        THEN spawnGeometricFlash(s, uniqueCols, t)
        ELSE s

\* handleInput(lanes, true) at engine clock t
handleInputDown(s, objs, lanes, t, rnd) ==
    detectPatterns(handleInputPress(s, objs, lanes, t, rnd), objs, t)

\* the first member of holdingIndices (in insertion order) in lane col, 0 when
\* there is none
FirstHolding(s, objs, col) ==
    LET ks == {k \in DOMAIN s.holdingIndices :
                  objs[s.holdingIndices[k]].column = col}
    IN  IF ks = {} THEN 0
        ELSE s.holdingIndices[CHOOSE k \in ks : \A m \in ks : k <= m]

\* handleInput(lanes, false) from lane number k on
RECURSIVE handleInputUp(_, _, _, _)
handleInputUp(s, objs, lanes, k) ==
    IF k > Len(lanes)
    THEN s
    ELSE LET holdingIdx == FirstHolding(s, objs, lanes[k])
         IN  handleInputUp(
               IF holdingIdx # 0
               THEN [s EXCEPT !.holdingIndices = SetDelete(@, holdingIdx)]
               ELSE s,
               objs, lanes, k + 1)

\* fault: a keydown listener that takes an unmapped code for KeyJ
handleKeyDown_UnmappedAsKeyJ(s, objs, code, t, rnd) ==
    LET c == IF code \in InputCodes THEN code ELSE "KeyJ"
    IN  [handleInputDown(s, objs, INPUT_MAPPING[c], t, rnd)
            EXCEPT !.inputState[KEY_INDEX_MAP[c]] = TRUE]

\* the keydown listener for a code other than Escape (autoPlay off, not a
\* repeat)
handleKeyDown(s, objs, code, t, rnd) ==
    IF code \in InputCodes
    THEN [handleInputDown(s, objs, INPUT_MAPPING[code], t, rnd)
            EXCEPT !.inputState[KEY_INDEX_MAP[code]] = TRUE]
    ELSE s

\* fault: a keyup listener that breaks the combo when it releases a hold
handleKeyUp_ReleaseBreaksCombo(s, objs, code) ==
    IF code \in InputCodes
    THEN LET lanes == INPUT_MAPPING[code]
             s1 == handleInputUp(s, objs, lanes, 1)
             s2 == IF s1.holdingIndices # s.holdingIndices
                   THEN [s1 EXCEPT !.combo = 0, !.miss = @ + 1]
                   ELSE s1
         IN  [s2 EXCEPT
                !.keyState = [l \in Lanes |->
                                IF \E k \in DOMAIN lanes : lanes[k] = l
                                THEN FALSE ELSE @[l]],
                !.inputState[KEY_INDEX_MAP[code]] = FALSE]
    ELSE s

\* the keyup listener (autoPlay off)
handleKeyUp(s, objs, code) ==
    IF code \in InputCodes
    THEN LET lanes == INPUT_MAPPING[code]
             s1 == handleInputUp(s, objs, lanes, 1)
         IN  [s1 EXCEPT
                !.keyState = [l \in Lanes |->
                                IF \E k \in DOMAIN lanes : lanes[k] = l
                                THEN FALSE ELSE @[l]],
                !.inputState[KEY_INDEX_MAP[code]] = FALSE]
    ELSE s

-----------------------------------------------------------------------------
(* The per-tick miss scan of gameLoop *)

\* gameLoop's visibleNotes filter
VisibleNotes(s, objs, t) ==
    {i \in DOMAIN objs :
        /\ ~ (i \in s.processedIndices
              /\ ~ \E k \in DOMAIN s.holdingIndices : s.holdingIndices[k] = i)
        /\ objs[i].time >= t - VISIBLE_PAST_MS
        /\ objs[i].time <= t + NOTE_SPEED_MS}

\* fault: a miss test that already fires at the edge of the Bad window
MissDue_AtWindowEdge(s, objs, i, t) ==
    /\ i \notin s.processedIndices
    /\ (objs[i].time - t) <= - HIT_WINDOW_BAD

\* the test that turns a visible note into a miss
MissDue(s, objs, i, t) ==
    /\ i \notin s.processedIndices
    /\ (objs[i].time - t) < - HIT_WINDOW_BAD

\* visibleNotes.forEach from note i on
RECURSIVE MissScan(_, _, _, _, _)
MissScan(s, objs, visibleNotes, t, i) ==
    IF i > Len(objs)
    THEN s
    ELSE IF /\ i \in visibleNotes
            /\ (objs[i].time - t) <= NOTE_SPEED_MS
            /\ MissDue(s, objs, i, t)
         THEN MissScan(
                registerHit([s EXCEPT !.processedIndices = @ \cup {i}],
                            i, "miss", objs[i].column, 0, FALSE, t, objs),
                objs, visibleNotes, t, i + 1)
         ELSE MissScan(s, objs, visibleNotes, t, i + 1)

gameLoop(s, objs, t) == MissScan(s, objs, VisibleNotes(s, objs, t), t, 1)

-----------------------------------------------------------------------------
(* The state machine *)

InitialStats ==
    [score |-> 0, combo |-> 0, maxCombo |-> 0, perfect |-> 0, good |-> 0,
     bad |-> 0, miss |-> 0, accuracy |-> Fraction(101, 1)]

InitialState ==
    [score |-> 0, combo |-> 0, maxCombo |-> 0,
     perfect |-> 0, good |-> 0, bad |-> 0, miss |-> 0,
     processedIndices |-> {},
     holdingIndices |-> << >>,
     keyState |-> [l \in Lanes |-> FALSE],
     inputState |-> [k \in 0 .. 3 |-> FALSE],
     lastHitTimes |-> [l \in Lanes |-> 0],
     hitDeviations |-> << >>,
     currentStats |-> InitialStats,
     events |-> << >>,
     flashEvents |-> << >>]

\* the chart the mount effect of App puts in the library: generateDemoTrack()
\* resolves in the microtask that follows the effect, before any user event
DemoChart == "demo"

\* App once the demo chart is in the library and no upload is in flight;
\* batch is history: the files of the last handleFileUpload call
AppIdle ==
    [library |-> << DemoChart >>, selectedSongIndex |-> 0, loading |-> FALSE,
     error |-> << >>, upload |-> << >>, demo |-> "resolved", batch |-> << >>]

\* App as mounted: the library is empty and the promise of the mount effect,
\* generateDemoTrack().then(demo => setLibrary([demo])), is not yet settled
AppMounted == [AppIdle EXCEPT !.library = << >>, !.demo = "pending"]

\* no chart text is being decoded
NoParser == [status |-> "none"]

\* GameCanvas has been mounted for a chart and its playback effect has run:
\* the source is scheduled, source.onended holds the currentStats of that
\* render, the frame loop is requested
Mounted(objs) ==
    /\ hitObjects = objs
    /\ clock = - START_DELAY_MS
    /\ state = InitialState
    /\ onendedStats = InitialStats
    /\ sourceNode = "scheduled"
    /\ parser = NoParser
    /\ gameState = "PLAYING"
    /\ app = AppIdle
    /\ unmappedKeys = 0
    /\ stats = << >>

Init == \E sc \in Scenarios : Mounted(sc.hitObjects)

Playing == gameState = "PLAYING"

\* the audio clock moves on to a later sample
AdvanceClock ==
    /\ Playing
    /\ \E t \in Scenario.samples :
          /\ t > clock
          /\ t <= MaxClock
          /\ clock' = t
    /\ UNCHANGED <<unmappedKeys, app, parser, hitObjects,
                   state, onendedStats, sourceNode,
                   gameState, stats>>

KeyDown(code) ==
    /\ Playing
    /\ Len(state.events) < MaxEvents
    /\ Len(state.flashEvents) < MaxFlashes
    /\ \E rnd \in 0 .. 1 :
          state' = handleKeyDown(state, hitObjects, code, clock, rnd)
    /\ UNCHANGED <<unmappedKeys, app, parser, hitObjects,
                   clock, onendedStats, sourceNode,
                   gameState, stats>>

KeyUp(code) ==
    /\ Playing
    /\ state' = handleKeyUp(state, hitObjects, code)
    /\ UNCHANGED <<unmappedKeys, app, parser, hitObjects,
                   clock, onendedStats, sourceNode,
                   gameState, stats>>

\* one animation frame
Tick ==
    /\ Playing
    /\ Len(state.events) < MaxEvents
    /\ state' = gameLoop(state, hitObjects, clock)
    /\ UNCHANGED <<unmappedKeys, app, parser, hitObjects,
                   clock, onendedStats, sourceNode,
                   gameState, stats>>

\* App.handleGameEnd(finalStats)
handleGameEnd(finalStats) ==
    /\ stats' = << finalStats >>
    /\ gameState' = "RESULTS"

\* source.onended: the track has played to its end
TrackEnd ==
    /\ Playing
    /\ sourceNode = "scheduled"
    /\ clock >= Scenario.duration
    /\ handleGameEnd(onendedStats)
    /\ sourceNode' = "ended"
    /\ UNCHANGED <<unmappedKeys, app, parser, hitObjects,
                   clock, state, onendedStats>>

\* App.returnToMenu
returnToMenu ==
    /\ gameState' = "MENU"
    /\ stats' = << >>

\* Escape: onExit = App.returnToMenu; GameCanvas is unmounted and the cleanup
\* of the playback effect cancels the frame request and calls source.stop()
\* with source.onended still set
Exit ==
    /\ Playing
    /\ returnToMenu
    /\ sourceNode' = "stopped"
    /\ UNCHANGED <<unmappedKeys, app, parser, hitObjects,
                   clock, state, onendedStats>>

\* the ended event of a source stopped by the cleanup is delivered (whether
\* it is, with the context being closed right after stop(), is left open: the
\* step may or may not be taken): source.onended runs onGameEnd(currentStats)
EndedAfterStop ==
    /\ sourceNode = "stopped"
    /\ handleGameEnd(onendedStats)
    /\ sourceNode' = "ended"
    /\ UNCHANGED <<unmappedKeys, app, parser, hitObjects,
                   clock, state, onendedStats>>

Next ==
    \/ AdvanceClock
    \/ \E code \in Scenario.keys : KeyDown(code)
    \/ \E code \in Scenario.keys : KeyUp(code)
    \/ Tick
    \/ TrackEnd
    \/ Exit
    \/ EndedAfterStop

Spec == Init /\ [][Next]_vars

-----------------------------------------------------------------------------
(* The end-to-end run: the scripted key-downs happen at their instants, a  *)
(* frame follows the previous handler by one of the frame periods.         *)

EndToEndInit == Mounted(EndToEndScenario.hitObjects)

\* the scripted press times that lie in (from, to]
PressesBetween(from, to) ==
    {p \in EndToEndScenario.presses : from < p /\ p <= to}

\* an animation frame d ms after the previous handler, no press being due
\* before it
EndToEndFrame ==
    /\ Playing
    /\ clock < EndToEndScenario.duration
    /\ \E d \in EndToEndScenario.framePeriods :
          /\ PressesBetween(clock, clock + d) = {}
          /\ clock' = clock + d
          /\ state' = gameLoop(state, hitObjects, clock + d)
    /\ UNCHANGED <<unmappedKeys, app, parser, hitObjects,
                   onendedStats, sourceNode, gameState,
                   stats>>

\* the next scripted key-down of the lane-0 control, at its instant p
EndToEndPress ==
    /\ Playing
    /\ \E p \in EndToEndScenario.presses :
          /\ p > clock
          /\ PressesBetween(clock, p) = {p}
          /\ \E d \in EndToEndScenario.framePeriods : p <= clock + d
          /\ clock' = p
          /\ \E rnd \in 0 .. 1 :
                state' = handleKeyDown(state, hitObjects, "KeyJ", p, rnd)
    /\ UNCHANGED <<unmappedKeys, app, parser, hitObjects,
                   onendedStats, sourceNode, gameState,
                   stats>>

\* the key is released some time after a press
EndToEndRelease ==
    /\ state.inputState[KEY_INDEX_MAP["KeyJ"]]
    /\ KeyUp("KeyJ")

EndToEndNext ==
    \/ EndToEndFrame
    \/ EndToEndPress
    \/ EndToEndRelease
    \/ TrackEnd

EndToEndSpec == EndToEndInit /\ [][EndToEndNext]_vars

-----------------------------------------------------------------------------
(* The engine on the chord chart *)

ChordInit == Mounted(ChordScenario.hitObjects)

ChordSpec == ChordInit /\ [][Next]_vars

-----------------------------------------------------------------------------
(* The engine on the chart with two holds on one lane *)

TwoHoldsInit == Mounted(TwoHoldsScenario.hitObjects)

TwoHoldsSpec == TwoHoldsInit /\ [][Next]_vars

-----------------------------------------------------------------------------
(* The engine on the chart whose nearest note is late *)

LateNearestInit == Mounted(LateNearestScenario.hitObjects)

LateNearestSpec == LateNearestInit /\ [][Next]_vars

-----------------------------------------------------------------------------
(* The engine on the chart with equidistant notes *)

TieInit == Mounted(TieScenario.hitObjects)

TieSpec == TieInit /\ [][Next]_vars

-----------------------------------------------------------------------------
(* The chart decoder: parseOsuText.                                        *)
(*                                                                         *)
(* A piece of text is the sequence of its characters.  A line of the chart *)
(* is kept as what the loop makes of it: a section header `[name]`, or the *)
(* fields line.split(...) yields.  A JavaScript number is << n >>, and     *)
(* << >> for NaN; a note's endTime is << >> for undefined and << v >> for  *)
(* the number v.                                                           *)

Num(n) == << n >>

NaN == << >>

IsNaN(v) == v = NaN

Val(v) == v[1]

\* String(undefined), what parseInt sees for a missing field
Undefined == << "undefined" >>

DigitChars == << "0", "1", "2", "3", "4", "5", "6", "7", "8", "9" >>

IsDigit(c) == \E k \in DOMAIN DigitChars : DigitChars[k] = c

DigitValue(c) == (CHOOSE k \in DOMAIN DigitChars : DigitChars[k] = c) - 1

\* the number of decimal digits a text starts with
RECURSIVE LeadingDigits(_)
LeadingDigits(chars) ==
    IF chars = << >> \/ ~ IsDigit(Head(chars)) THEN 0
    ELSE 1 + LeadingDigits(Tail(chars))

RECURSIVE DecimalValue(_)
DecimalValue(digits) ==
    IF digits = << >> THEN 0
    ELSE DecimalValue(SubSeq(digits, 1, Len(digits) - 1)) * 10
            + DigitValue(digits[Len(digits)])

\* parseInt(text): an optional sign and the longest run of digits after it,
\* NaN when there is no digit (the texts here have no leading white space)
parseInt(chars) ==
    LET signed == chars # << >> /\ Head(chars) \in {"-", "+"}
        body == IF signed THEN Tail(chars) ELSE chars
        n == LeadingDigits(body)
        magnitude == DecimalValue(SubSeq(body, 1, n))
    IN  IF n = 0 THEN NaN
        ELSE IF signed /\ Head(chars) = "-" THEN Num(- magnitude)
        ELSE Num(magnitude)

\* parts[k - 1] of the code, undefined (as parseInt reads it) when the line
\* has fewer fields
Part(parts, k) == IF k <= Len(parts) THEN parts[k] ELSE Undefined

\* text.split(':')[0]
RECURSIVE BeforeColon(_)
BeforeColon(chars) ==
    IF chars = << >> \/ Head(chars) = ":" THEN << >>
    ELSE << Head(chars) >> \o BeforeColon(Tail(chars))

\* a % b of JavaScript for integers: the sign of the dividend
JsRem(a, b) == IF a >= 0 THEN a % b ELSE - ((- a) % b)

\* Math.floor(x * circleSize / 512)
ColumnOfX(x, circleSize) ==
    IF IsNaN(x) \/ IsNaN(circleSize) THEN NaN
    ELSE Num((Val(x) * Val(circleSize)) \div 512)

\* fault: FourKeyColumn alternating on the parity of the snap alone
FourKeyColumn_ParityOfSnap(column, time) ==
    LET snap == IF IsNaN(time) THEN NaN ELSE Num(Val(time) \div 20)
        variance == IF IsNaN(snap) \/ IsNaN(column) THEN NaN
                    ELSE Num(JsRem(Val(snap), 2))
        even == variance = Num(0)
    IN  CASE column = Num(0) -> Num(IF even THEN 5 ELSE 4)
          [] column = Num(1) -> Num(IF even THEN 6 ELSE 7)
          [] column = Num(2) -> Num(IF even THEN 0 ELSE 1)
          [] column = Num(3) -> Num(IF even THEN 2 ELSE 3)
          [] OTHER -> column

\* fault: FourKeyColumn alternating each column between neighbouring lanes
\* 2c and 2c + 1 counted from lane 5, which splits a column over two controls
FourKeyColumn_AcrossControls(column, time) ==
    LET snap == IF IsNaN(time) THEN NaN ELSE Num(Val(time) \div 20)
        variance == IF IsNaN(snap) \/ IsNaN(column) THEN NaN
                    ELSE Num(JsRem(Val(snap) + Val(column), 2))
        even == variance = Num(0)
    IN  CASE column = Num(0) -> Num(IF even THEN 5 ELSE 6)
          [] column = Num(1) -> Num(IF even THEN 7 ELSE 0)
          [] column = Num(2) -> Num(IF even THEN 1 ELSE 2)
          [] column = Num(3) -> Num(IF even THEN 3 ELSE 4)
          [] OTHER -> column

\* the remapping of the four columns of a 4K chart to the eight lanes
FourKeyColumn(column, time) ==
    LET snap == IF IsNaN(time) THEN NaN ELSE Num(Val(time) \div 20)
        variance == IF IsNaN(snap) \/ IsNaN(column) THEN NaN
                    ELSE Num(JsRem(Val(snap) + Val(column), 2))
        even == variance = Num(0)
    IN  CASE column = Num(0) -> Num(IF even THEN 5 ELSE 4)
          [] column = Num(1) -> Num(IF even THEN 6 ELSE 7)
          [] column = Num(2) -> Num(IF even THEN 0 ELSE 1)
          [] column = Num(3) -> Num(IF even THEN 2 ELSE 3)
          [] OTHER -> column

\* Math.min(a, b) and Math.max(a, b): NaN when an argument is NaN
MathMin(a, b) ==
    IF IsNaN(a) \/ IsNaN(b) THEN NaN
    ELSE IF Val(a) < Val(b) THEN a ELSE b

MathMax(a, b) ==
    IF IsNaN(a) \/ IsNaN(b) THEN NaN
    ELSE IF Val(a) > Val(b) THEN a ELSE b

\* Math.max(0, Math.min(column, 7))
ClampedColumn(column) == MathMax(Num(0), MathMin(column, Num(7)))

\* (type & 128) > 0; NaN & 128 is 0
IsHoldType(type) == ~ IsNaN(type) /\ (Val(type) \div 128) % 2 = 1

\* parts[5].split(':') throws a TypeError when the line has no sixth field
HoldLineThrows(parts) == IsHoldType(parseInt(Part(parts, 4))) /\ Len(parts) < 6

\* the note a HitObjects line decodes to
DecodedHitObject(parts, circleSize) ==
    LET x == parseInt(Part(parts, 1))
        time == parseInt(Part(parts, 3))
        type == parseInt(Part(parts, 4))
        column == ColumnOfX(x, circleSize)
        mapped == IF circleSize = Num(4) THEN FourKeyColumn(column, time)
                  ELSE column
    IN  [x |-> x, time |-> time, type |-> type,
         endTime |-> IF IsHoldType(type)
                     THEN << parseInt(BeforeColon(Part(parts, 6))) >>
                     ELSE << >>,
         column |-> ClampedColumn(mapped)]

\* the permutations of the index set of a sequence
Perms(seq) ==
    {p \in [DOMAIN seq -> DOMAIN seq] :
        \A i, j \in DOMAIN seq : i # j => p[i] # p[j]}

\* the comparator (a, b) => a.time - b.time orders the notes consistently
\* when no time is NaN
ConsistentByTime(objs) == \A i \in DOMAIN objs : ~ IsNaN(objs[i].time)

\* what hitObjects.sort((a, b) => a.time - b.time) can leave in the array:
\* the stable sort by time; with a NaN time the comparator is not consistent
\* and the order is implementation-defined
SortOutcomes(objs) ==
    IF ConsistentByTime(objs)
    THEN {[k \in DOMAIN objs |-> objs[p[k]]] :
            p \in {q \in Perms(objs) :
                     \A i, j \in DOMAIN objs :
                        i < j =>
                           \/ Val(objs[q[i]].time) < Val(objs[q[j]].time)
                           \/ /\ objs[q[i]].time = objs[q[j]].time
                              /\ q[i] < q[j]}}
    ELSE {[k \in DOMAIN objs |-> objs[p[k]]] : p \in Perms(objs)}

\* parseFloat(text) for texts of the form [sign] digits [. digits]; the value
\* is kept in thousandths (fixed point, three decimals), NaN when the text
\* starts with no number
parseFloat(chars) ==
    LET signed == chars # << >> /\ Head(chars) \in {"-", "+"}
        body == IF signed THEN Tail(chars) ELSE chars
        n == LeadingDigits(body)
        rest == SubSeq(body, n + 1, Len(body))
        dotted == rest # << >> /\ Head(rest) = "."
        m == IF dotted THEN LeadingDigits(Tail(rest)) ELSE 0
        decimals == SubSeq(rest, 2, 1 + (IF m > 3 THEN 3 ELSE m))
        scale == CASE Len(decimals) = 0 -> 1000
                   [] Len(decimals) = 1 -> 100
                   [] Len(decimals) = 2 -> 10
                   [] OTHER -> 1
        magnitude == DecimalValue(SubSeq(body, 1, n)) * 1000
                        + DecimalValue(decimals) * scale
    IN  IF n = 0 /\ m = 0 THEN NaN
        ELSE IF signed /\ Head(chars) = "-" THEN Num(- magnitude)
        ELSE Num(magnitude)

\* the TimingPoint a TimingPoints line of at least two fields decodes to
DecodedTimingPoint(parts) ==
    [time |-> parseFloat(Part(parts, 1)),
     beatLength |-> parseFloat(Part(parts, 2)),
     uninherited |-> IF Len(parts) >= 7 THEN parts[7] # << "0" >> ELSE TRUE]

\* timingPoints.filter(tp => tp.uninherited && tp.beatLength > 0)
RedPoints(timingPoints) ==
    SelectSeq(timingPoints,
              LAMBDA tp : tp.uninherited /\ ~ IsNaN(tp.beatLength)
                             /\ Val(tp.beatLength) > 0)

\* redPoints.sort((a, b) => a.time - b.time), a stable sort (the times of the
\* markers here are numbers)
SortedRedPoints(redPoints) ==
    LET p == CHOOSE q \in Perms(redPoints) :
                \A i, j \in DOMAIN redPoints :
                   i < j =>
                      \/ Val(redPoints[q[i]].time) < Val(redPoints[q[j]].time)
                      \/ /\ redPoints[q[i]].time = redPoints[q[j]].time
                         /\ q[i] < q[j]
    IN  [k \in DOMAIN redPoints |-> redPoints[p[k]]]

\* `hitObjects[hitObjects.length - 1]?.time || 0`, in thousandths
LastObjTime(objs) ==
    IF objs = << >> \/ IsNaN(objs[Len(objs)].time) THEN 0
    ELSE Val(objs[Len(objs)].time) * 1000

\* Math.round(beatLength * 10) / 10, in tenths
RoundedBL(beatLength) == (Val(beatLength) + 50) \div 100

\* bpmCounts[key] = (bpmCounts[key] || 0) + duration; bpmCounts is kept as
\* the sequence of its properties in the order they were created
CountAdded(bpmCounts, key, duration) ==
    IF \E k \in DOMAIN bpmCounts : bpmCounts[k].key = key
    THEN [k \in DOMAIN bpmCounts |->
            IF bpmCounts[k].key = key
            THEN [bpmCounts[k] EXCEPT !.dur = @ + duration]
            ELSE bpmCounts[k]]
    ELSE Append(bpmCounts, [key |-> key, dur |-> duration])

\* the loop over redPoints from marker i on
RECURSIVE BpmCounts(_, _, _, _)
BpmCounts(redPoints, i, lastObjTime, bpmCounts) ==
    IF i > Len(redPoints) THEN bpmCounts
    ELSE LET pt == redPoints[i]
             nextTime == IF i = Len(redPoints) THEN lastObjTime
                         ELSE Val(redPoints[i + 1].time)
             gap == nextTime - Val(pt.time)
             duration == IF gap > 0 THEN gap ELSE 0
             roundedBL == RoundedBL(pt.beatLength)
         IN  BpmCounts(redPoints, i + 1, lastObjTime,
                       IF roundedBL > 0
                       THEN CountAdded(bpmCounts, roundedBL, duration)
                       ELSE bpmCounts)

\* a property key that is an array index (a whole number of milliseconds):
\* such keys are enumerated first, in ascending order
IsIndexKey(key) == key % 10 = 0

\* the entries whose keys are array indices, in ascending order of the key
RECURSIVE IndexEntries(_)
IndexEntries(S) ==
    IF S = {} THEN << >>
    ELSE LET least == CHOOSE e \in S : \A f \in S : e.key <= f.key
         IN  << least >> \o IndexEntries(S \ {least})

\* Object.entries(bpmCounts): index keys ascending, then the other keys in
\* creation order
ObjectEntries(bpmCounts) ==
    IndexEntries({bpmCounts[k] : k \in {j \in DOMAIN bpmCounts :
                                          IsIndexKey(bpmCounts[j].key)}})
       \o SelectSeq(bpmCounts, LAMBDA e : ~ IsIndexKey(e.key))

\* the loop `if (dur > maxDur) { maxDur = dur; mainBeatLength = bl }` from
\* entry i on; beat lengths in tenths
RECURSIVE MainBeatLength(_, _, _, _)
MainBeatLength(entries, i, maxDur, mainBeatLength) ==
    IF i > Len(entries) THEN mainBeatLength
    ELSE IF entries[i].dur > maxDur
         THEN MainBeatLength(entries, i + 1, entries[i].dur, entries[i].key)
         ELSE MainBeatLength(entries, i + 1, maxDur, mainBeatLength)

\* the beat length (tenths) the loop starts from: 500 ms
DEFAULT_BEAT_LENGTH == 5000

\* data.bpm before the derivation
DEFAULT_BPM == 120

\* Math.round(60000 / mainBeatLength)
BpmOf(mainBeatLength) == (1200000 + mainBeatLength) \div (2 * mainBeatLength)

\* data.bpm after the tempo derivation; objs is the sorted data.hitObjects
DerivedBpm(timingPoints, objs) ==
    LET redPoints == RedPoints(timingPoints)
    IN  IF redPoints = << >> THEN DEFAULT_BPM
        ELSE LET bpmCounts == BpmCounts(SortedRedPoints(redPoints), 1,
                                        LastObjTime(objs), << >>)
                 mainBeatLength ==
                     MainBeatLength(ObjectEntries(bpmCounts), 1, -1,
                                    DEFAULT_BEAT_LENGTH)
             IN  IF mainBeatLength > 0 THEN BpmOf(mainBeatLength)
                 ELSE DEFAULT_BPM

\* the lines of a chart text
Header(name) == [kind |-> "header", name |-> name, parts |-> << >>]

Pair(key, value) == [kind |-> "pair", name |-> key, parts |-> << value >>]

Fields(parts) == [kind |-> "fields", name |-> "", parts |-> parts]

\* the values of the CircleSize line the model explores: 4, 7, 8, 16 and a
\* text that is no number
CircleSizeTexts ==
    { << "4" >>, << "7" >>, << "8" >>, << "1", "6" >>, << "x" >> }

\* the HitObjects lines the model explores
HitObjectLines ==
    { \* 64,192,1000,1,0
      << << "6", "4" >>, << "1", "9", "2" >>, << "1", "0", "0", "0" >>,
         << "1" >>, << "0" >> >>,
      \* 448,192,500,1,0
      << << "4", "4", "8" >>, << "1", "9", "2" >>, << "5", "0", "0" >>,
         << "1" >>, << "0" >> >>,
      \* 192,192,500,128,0,900:0:0
      << << "1", "9", "2" >>, << "1", "9", "2" >>, << "5", "0", "0" >>,
         << "1", "2", "8" >>, << "0" >>,
         << "9", "0", "0", ":", "0", ":", "0" >> >>,
      \* 64,192,500,128,0,400:0:0 (a hold that ends before it starts)
      << << "6", "4" >>, << "1", "9", "2" >>, << "5", "0", "0" >>,
         << "1", "2", "8" >>, << "0" >>,
         << "4", "0", "0", ":", "0", ":", "0" >> >>,
      \* 320,192,1020,1,0
      << << "3", "2", "0" >>, << "1", "9", "2" >>, << "1", "0", "2", "0" >>,
         << "1" >>, << "0" >> >>,
      \* 600,192,1000,1,0 (x beyond the playfield)
      << << "6", "0", "0" >>, << "1", "9", "2" >>, << "1", "0", "0", "0" >>,
         << "1" >>, << "0" >> >>,
      \* -10,192,250,1,0 (x left of the playfield)
      << << "-", "1", "0" >>, << "1", "9", "2" >>, << "2", "5", "0" >>,
         << "1" >>, << "0" >> >>,
      \* abc (no field is a number)
      << << "a", "b", "c" >> >>,
      \* 64,192,x,1,0 (the time is no number)
      << << "6", "4" >>, << "1", "9", "2" >>, << "x" >>, << "1" >>,
         << "0" >> >>,
      \* 64,192,1000,128,0 (a hold without its sixth field)
      << << "6", "4" >>, << "1", "9", "2" >>, << "1", "0", "0", "0" >>,
         << "1", "2", "8" >>, << "0" >> >> }

\* the sequences of at most n members of S
SeqsUpTo(S, n) == UNION {[1 .. k -> S] : k \in 0 .. n}

\* the chart texts the model explores: a Difficulty section with or without
\* a CircleSize line, then a HitObjects section of at most MaxLines lines
ChartTexts ==
    {<< Header("Difficulty") >> \o cs \o << Header("HitObjects") >> \o
        [k \in DOMAIN ls |-> Fields(ls[k])] :
        cs \in {<< >>} \cup {<< Pair("CircleSize", v) >> : v \in CircleSizeTexts},
        ls \in SeqsUpTo(HitObjectLines, MaxLines)}

\* parseOsuText(text) before its first line
ParserStart(text) ==
    [status |-> "parsing", text |-> text, pos |-> 1, section |-> "",
     circleSize |-> Num(4), timingPoints |-> << >>, hitObjects |-> << >>,
     bpm |-> DEFAULT_BPM]

\* the application before any game, decoding a chart
ParseInit ==
    /\ parser \in {ParserStart(text) : text \in ChartTexts}
    /\ hitObjects = << >>
    /\ clock = 0
    /\ state = InitialState
    /\ onendedStats = InitialStats
    /\ sourceNode = "none"
    /\ gameState = "MENU"
    /\ app = AppIdle
    /\ unmappedKeys = 0
    /\ stats = << >>

EngineUnchanged ==
    UNCHANGED <<hitObjects, clock, state, onendedStats, sourceNode, gameState,
                stats>>

\* the line the loop is at
ParserLine == parser.text[parser.pos]

ParserAtLine ==
    /\ parser.status = "parsing"
    /\ parser.pos <= Len(parser.text)

\* `if (line.startsWith('[')) { section = line.slice(1, -1); continue; }`
ParseHeaderLine ==
    /\ ParserAtLine
    /\ ParserLine.kind = "header"
    /\ parser' = [parser EXCEPT !.section = ParserLine.name, !.pos = @ + 1]
    /\ EngineUnchanged
    /\ UNCHANGED <<app, unmappedKeys>>

\* a line of the Difficulty section
ParseDifficultyLine ==
    /\ ParserAtLine
    /\ ParserLine.kind # "header"
    /\ parser.section = "Difficulty"
    /\ parser' = [parser EXCEPT
                    !.circleSize =
                        IF ParserLine.name = "CircleSize"
                        THEN parseInt(Part(ParserLine.parts, 1))
                        ELSE @,
                    !.pos = @ + 1]
    /\ EngineUnchanged
    /\ UNCHANGED <<app, unmappedKeys>>

\* a line of the HitObjects section
ParseHitObjectLine ==
    /\ ParserAtLine
    /\ ParserLine.kind # "header"
    /\ parser.section = "HitObjects"
    /\ parser' =
          IF HoldLineThrows(ParserLine.parts)
          THEN [parser EXCEPT !.status = "threw"]
          ELSE [parser EXCEPT
                  !.hitObjects =
                      Append(@, DecodedHitObject(ParserLine.parts,
                                                 parser.circleSize)),
                  !.pos = @ + 1]
    /\ EngineUnchanged
    /\ UNCHANGED <<app, unmappedKeys>>

\* a line of the TimingPoints section
ParseTimingPointLine ==
    /\ ParserAtLine
    /\ ParserLine.kind # "header"
    /\ parser.section = "TimingPoints"
    /\ parser' = [parser EXCEPT
                    !.timingPoints =
                        IF Len(ParserLine.parts) >= 2
                        THEN Append(@, DecodedTimingPoint(ParserLine.parts))
                        ELSE @,
                    !.pos = @ + 1]
    /\ EngineUnchanged
    /\ UNCHANGED <<app, unmappedKeys>>

\* after the loop: data.hitObjects.sort(...), the tempo derivation and
\* return data
ParseEnd ==
    /\ parser.status = "parsing"
    /\ parser.pos > Len(parser.text)
    /\ \E sorted \in SortOutcomes(parser.hitObjects) :
          parser' = [parser EXCEPT
                       !.hitObjects = sorted,
                       !.bpm = DerivedBpm(parser.timingPoints, sorted),
                       !.status = "done"]
    /\ EngineUnchanged
    /\ UNCHANGED <<app, unmappedKeys>>

ParseNext ==
    \/ ParseHeaderLine
    \/ ParseDifficultyLine
    \/ ParseHitObjectLine
    \/ ParseEnd

ParseSpec == ParseInit /\ [][ParseNext]_vars

\* the TimingPoints lines the model explores
TimingPointLines ==
    { \* 0,500
      << << "0" >>, << "5", "0", "0" >> >>,
      \* 500,400,4,2,0,100,1,0
      << << "5", "0", "0" >>, << "4", "0", "0" >>, << "4" >>, << "2" >>,
         << "0" >>, << "1", "0", "0" >>, << "1" >>, << "0" >> >>,
      \* 500,-100,4,2,0,100,0,0 (an inherited marker)
      << << "5", "0", "0" >>, << "-", "1", "0", "0" >>, << "4" >>, << "2" >>,
         << "0" >>, << "1", "0", "0" >>, << "0" >>, << "0" >> >>,
      \* 250,333.33,4,2,0,100,1,0
      << << "2", "5", "0" >>, << "3", "3", "3", ".", "3", "3" >>, << "4" >>,
         << "2" >>, << "0" >>, << "1", "0", "0" >>, << "1" >>, << "0" >> >>,
      \* 0,499.96 (the bucket of 500)
      << << "0" >>, << "4", "9", "9", ".", "9", "6" >> >>,
      \* 750 (a line of one field)
      << << "7", "5", "0" >> >> }

\* the HitObjects lines of the tempo charts: 64,192,1000,1,0 and
\* 448,192,500,1,0
TempoHitObjectLines ==
    { << << "6", "4" >>, << "1", "9", "2" >>, << "1", "0", "0", "0" >>,
         << "1" >>, << "0" >> >>,
      << << "4", "4", "8" >>, << "1", "9", "2" >>, << "5", "0", "0" >>,
         << "1" >>, << "0" >> >> }

\* the chart texts of the tempo derivation: a 4K chart with at most
\* MaxPoints TimingPoints lines and at most one note
TempoTexts ==
    {<< Header("Difficulty"), Pair("CircleSize", << "4" >>),
        Header("TimingPoints") >> \o
        [k \in DOMAIN ps |-> Fields(ps[k])] \o << Header("HitObjects") >> \o
        [k \in DOMAIN ls |-> Fields(ls[k])] :
        ps \in SeqsUpTo(TimingPointLines, MaxPoints),
        ls \in SeqsUpTo(TempoHitObjectLines, 1)}

TempoInit ==
    /\ parser \in {ParserStart(text) : text \in TempoTexts}
    /\ hitObjects = << >>
    /\ clock = 0
    /\ state = InitialState
    /\ onendedStats = InitialStats
    /\ sourceNode = "none"
    /\ gameState = "MENU"
    /\ app = AppIdle
    /\ unmappedKeys = 0
    /\ stats = << >>

TempoNext ==
    \/ ParseHeaderLine
    \/ ParseDifficultyLine
    \/ ParseTimingPointLine
    \/ ParseHitObjectLine
    \/ ParseEnd

TempoSpec == TempoInit /\ [][TempoNext]_vars

-----------------------------------------------------------------------------
(* Properties.  They are stated over the judgement-event stream and the    *)
(* timeline, not over the operators above.                                 *)

Notes == DOMAIN hitObjects

Events == state.events

\* the events the step appends to the stream
NewEvents == SubSeq(state'.events, Len(state.events) + 1, Len(state'.events))

\* the events of note i so far
EventsOf(i) == {k \in DOMAIN Events : Events[k].idx = i}

\* the grades of the stream, in order
GradesOf(evs) == [k \in DOMAIN evs |-> evs[k].type]

\* the points a grade is worth (300 / 100 / 50 / 0)
Points(type) ==
    IF type = "perfect" THEN 300
    ELSE IF type = "good" THEN 100
    ELSE IF type = "bad" THEN 50
    ELSE 0

RECURSIVE PointsEarned(_)
PointsEarned(evs) ==
    IF evs = << >> THEN 0
    ELSE Points(evs[Len(evs)].type) + PointsEarned(SubSeq(evs, 1, Len(evs) - 1))

\* diff = note.time - engineClock for note i at the current clock
Diff(i) == hitObjects[i].time - clock

\* the two lanes of a control
ControlLanes(code) ==
    {INPUT_MAPPING[code][k] : k \in DOMAIN INPUT_MAPPING[code]}

\* the Pending notes of the control's lanes with note.time - engineClock < 160
PendingCandidates(code) ==
    {j \in Notes :
        /\ hitObjects[j].column \in ControlLanes(code)
        /\ j \notin state.processedIndices
        /\ Diff(j) < 160}

\* note i is the one candidate strictly nearest to the input instant
Selected(code, i) ==
    /\ i \in PendingCandidates(code)
    /\ \A j \in PendingCandidates(code) \ {i} : Abs(Diff(i)) < Abs(Diff(j))

\* the step judges note i, and nothing else, with grade g
GradedNow(i, g) ==
    /\ Len(NewEvents) = 1
    /\ NewEvents[1].idx = i
    /\ NewEvents[1].type = g
    /\ NewEvents[1].diff = Diff(i)
    /\ state'.processedIndices = state.processedIndices \cup {i}

\* the step judges note i
ResolvedNow(i) == \E k \in DOMAIN NewEvents : NewEvents[k].idx = i

\* C1: every note has at most one judgement event, a note has left Pending
\* exactly when it has one, and so no note is judged twice or is both
\* Resolved and Missed.
C1_JudgedAtMostOnce ==
    \A i \in Notes :
        /\ Cardinality(EventsOf(i)) <= 1
        /\ (i \in state.processedIndices) <=> (EventsOf(i) # {})

\* C1 witness: every note of the three-note chart has been judged, by
\* key-downs and by the miss scan, and the run has gone on to the last sample.
C1_Witness ==
    /\ hitObjects = NearestScenario.hitObjects
    /\ state.processedIndices = Notes
    /\ \E k \in DOMAIN Events : Events[k].type = "miss"
    /\ \E k \in DOMAIN Events : Events[k].type = "perfect"
    /\ clock = 600

\* C2: a key-down that selects a note grades it Perfect for |diff| <= 80,
\* Good for 80 < |diff| <= 120 and Bad for diff = 150; it resolves nothing
\* when the selected note has diff = -121, and never resolves a note whose
\* diff is -121 or 170.
C2_GradeByDiff ==
    [][\A code \in InputCodes :
          KeyDown(code) =>
             \A i \in Notes :
                /\ Selected(code, i) =>
                      /\ Abs(Diff(i)) <= 80 => GradedNow(i, "perfect")
                      /\ (80 < Abs(Diff(i)) /\ Abs(Diff(i)) <= 120)
                            => GradedNow(i, "good")
                      /\ Diff(i) = 150 => GradedNow(i, "bad")
                      /\ Diff(i) = -121 => NewEvents = << >>
                /\ Diff(i) \in {-121, 170} => ~ ResolvedNow(i)]_vars

\* C2 witness: one run has graded a note Perfect at diff 0, one Good at diff
\* 81 and one Bad at diff 150.
C2_Witness ==
    /\ \E k \in DOMAIN Events :
          Events[k].type = "perfect" /\ Events[k].diff = 0
    /\ \E k \in DOMAIN Events :
          Events[k].type = "good" /\ Events[k].diff = 81
    /\ \E k \in DOMAIN Events :
          Events[k].type = "bad" /\ Events[k].diff = 150

\* C3 as claimed: a Bad grade goes only to a late input (engineClock >
\* note.time) with 120 < |diff| <= 160, and a note for which the input is
\* early by more than 120 ms is not resolved.
C3_BadOnlyLate ==
    \A k \in DOMAIN Events :
        LET e == Events[k]
        IN  e.type # "miss" =>
               /\ e.type = "bad" =>
                     /\ e.time > hitObjects[e.idx].time
                     /\ 120 < Abs(e.diff) /\ Abs(e.diff) <= 160
               /\ ~ (e.time < hitObjects[e.idx].time - 120)

\* C3 amended: a Bad grade goes only to an early input (engineClock <
\* note.time) with note.time - engineClock more than 120 and less than 160,
\* and a note for which the input is late by more than 120 ms is not resolved
\* by it.
C3_BadOnlyEarly ==
    \A k \in DOMAIN Events :
        LET e == Events[k]
        IN  e.type # "miss" =>
               /\ e.diff = hitObjects[e.idx].time - e.time
               /\ e.type = "bad" =>
                     /\ e.time < hitObjects[e.idx].time
                     /\ 120 < e.diff /\ e.diff < 160
               /\ ~ (e.time > hitObjects[e.idx].time + 120)

\* C3 witness: a note has been graded Bad by a key-down 159 ms before its
\* time.
C3_Witness ==
    \E k \in DOMAIN Events :
        /\ Events[k].type = "bad"
        /\ Events[k].time = hitObjects[Events[k].idx].time - 159

\* C4: the note a key-down judges lies in one of the control's two lanes, was
\* Pending, had note.time - engineClock < 160, and has the least
\* |note.time - engineClock| of all such notes of both lanes.
C4_NearestCandidate ==
    [][\A code \in InputCodes :
          KeyDown(code) =>
             \A k \in DOMAIN NewEvents :
                LET i == NewEvents[k].idx
                IN  /\ i \in PendingCandidates(code)
                    /\ \A j \in PendingCandidates(code) :
                          Abs(Diff(i)) <= Abs(Diff(j))]_vars

\* C4 witness: at clock 300 of the three-note chart all three notes were
\* candidates (|diff| 100, 40, 20) and the key-down judged the third.
C4_Witness ==
    /\ hitObjects = NearestScenario.hitObjects
    /\ Len(Events) >= 1
    /\ Events[1].idx = 3
    /\ Events[1].time = 300

\* C5 as claimed: a tick whose clock sample is past note.time + 160 leaves no
\* such note Pending (the scan has missed it then or before).
C5_TickMissesEveryOverdueNote ==
    [][Tick =>
          \A i \in Notes :
             clock - hitObjects[i].time > 160
                => i \in state'.processedIndices]_vars

\* C6 as claimed: at the end of the end-to-end run the grades are Perfect,
\* Good, Bad, Miss in note order, combo = 0, maxCombo = 2, missCount = 1.
C6_EndToEndAsClaimed ==
    gameState = "RESULTS" =>
        /\ Len(Events) = 4
        /\ [k \in 1 .. 4 |-> Events[k].idx] = << 1, 2, 3, 4 >>
        /\ GradesOf(Events) = << "perfect", "good", "bad", "miss" >>
        /\ state.combo = 0
        /\ state.maxCombo = 2
        /\ state.miss = 1

\* C6 amended: at the end of the end-to-end run (a frame at most every 40 ms)
\* the grades are Perfect, Perfect, Miss, Miss in note order, combo = 0,
\* maxCombo = 2, missCount = 2.
C6_EndToEnd ==
    gameState = "RESULTS" =>
        /\ Len(Events) = 4
        /\ [k \in 1 .. 4 |-> Events[k].idx] = << 1, 2, 3, 4 >>
        /\ GradesOf(Events) = << "perfect", "perfect", "miss", "miss" >>
        /\ [k \in 1 .. 2 |-> Events[k].diff] = << 0, -5 >>
        /\ state.combo = 0
        /\ state.maxCombo = 2
        /\ state.miss = 2

\* C6 witness: the end-to-end run has ended after its last key-down.
C6_Witness ==
    /\ hitObjects = EndToEndScenario.hitObjects
    /\ gameState = "RESULTS"
    /\ clock >= 5500
    /\ Len(Events) = 4

\* the ScoreState of an engine state
ScoreState(s) ==
    [score |-> s.score, combo |-> s.combo, maxCombo |-> s.maxCombo,
     perfectCount |-> s.perfect, goodCount |-> s.good, badCount |-> s.bad,
     missCount |-> s.miss]

\* the effect one judgement event is to have on a ScoreState
Folded(sc, type) ==
    IF type = "miss"
    THEN [sc EXCEPT !.combo = 0, !.missCount = @ + 1]
    ELSE LET c == sc.combo + 1
             m == IF sc.maxCombo > c THEN sc.maxCombo ELSE c
         IN  CASE type = "perfect" ->
                    [sc EXCEPT !.score = @ + 300, !.perfectCount = @ + 1,
                               !.combo = c, !.maxCombo = m]
               [] type = "good" ->
                    [sc EXCEPT !.score = @ + 100, !.goodCount = @ + 1,
                               !.combo = c, !.maxCombo = m]
               [] type = "bad" ->
                    [sc EXCEPT !.score = @ + 50, !.badCount = @ + 1,
                               !.combo = c, !.maxCombo = m]

RECURSIVE FoldedAll(_, _)
FoldedAll(sc, evs) ==
    IF evs = << >> THEN sc
    ELSE FoldedAll(Folded(sc, Head(evs).type), Tail(evs))

\* C7: every step changes ScoreState by exactly the effects of the judgement
\* events it emits, in order: Miss -> combo 0, missCount + 1; Perfect / Good /
\* Bad -> score + 300 / 100 / 50, its count + 1, combo + 1, maxCombo =
\* max(maxCombo, combo); nothing else changes.
C7_ScoreFold ==
    [][ScoreState(state') = FoldedAll(ScoreState(state), NewEvents)]_vars

\* C7 witness: one run has produced a Perfect, a Good, a Bad and a Miss.
C7_Witness ==
    /\ state.perfect = 1 /\ state.good = 1 /\ state.bad = 1 /\ state.miss = 1
    /\ state.score = 450

\* C8 as claimed: the GameStats App receives when the track ends is the last
\* live snapshot (currentStats) of the run.
C8_FinalStatsAreLiveStats ==
    gameState = "RESULTS" => stats = << state.currentStats >>

\* the accuracy (points / (judged * 300)) * 101 of the stream, 101 when empty,
\* compared with a fraction by cross-multiplication
AccuracyIs(acc, evs) ==
    IF Len(evs) = 0
    THEN acc.num = 101 * acc.den
    ELSE acc.num * (Len(evs) * 300) = PointsEarned(evs) * 101 * acc.den

\* C9: accuracy is (points earned / (judged notes * 300)) * 101, and 101 when
\* nothing is judged: 101 before any judgement, 101 after one Perfect, 50.5
\* after a Perfect and a Miss; it never exceeds 101.
C9_Accuracy ==
    LET acc == state.currentStats.accuracy
    IN  /\ acc.den > 0
        /\ Len(Events) = Cardinality(state.processedIndices)
        /\ AccuracyIs(acc, Events)
        /\ Events = << >> => acc = [num |-> 101, den |-> 1]
        /\ GradesOf(Events) = << "perfect" >> => acc = [num |-> 101, den |-> 1]
        /\ GradesOf(Events) \in {<< "perfect", "miss" >>, << "miss", "perfect" >>}
              => acc = [num |-> 101, den |-> 2]
        /\ acc.num <= 101 * acc.den

\* C9 witness: a Perfect and then a Miss have been judged, accuracy is 50.5.
C9_Witness ==
    /\ GradesOf(Events) = << "perfect", "miss" >>
    /\ state.currentStats.accuracy = [num |-> 101, den |-> 2]

\* C10: displayScore is floor(points / (totalNotes * 300) * 1010000), never
\* exceeds 1010000, and is 1010000 only when every note of the chart has been
\* graded Perfect.
C10_DisplayScore ==
    LET score == state.currentStats.score
    IN  /\ score = (PointsEarned(Events) * 1010000) \div (Len(hitObjects) * 300)
        /\ score <= 1010000
        /\ score = 1010000 =>
              \A i \in Notes :
                 \E k \in DOMAIN Events :
                    Events[k].idx = i /\ Events[k].type = "perfect"

\* C10 witness: every note of the three-note chart is Perfect and the
\* display score is 1010000.
C10_Witness ==
    /\ Len(hitObjects) = 3
    /\ state.perfect = 3
    /\ state.currentStats.score = 1010000

\* the judgement events evs folded, in order, into the tracker s by
\* registerHit; with bare, only the grade of each event is handed over (lane
\* 0, no deviation, no jack, clock 0)
RECURSIVE Replayed(_, _, _)
Replayed(s, evs, bare) ==
    IF evs = << >> THEN s
    ELSE LET e == Head(evs)
         IN  Replayed(
               IF bare
               THEN registerHit(s, e.idx, e.type, 0, 0, FALSE, 0, hitObjects)
               ELSE registerHit(s, e.idx, e.type, e.col, e.diff, e.isJack,
                                e.time, hitObjects),
               Tail(evs), bare)

\* what the claim compares of a tracker: ScoreState and accuracy
Scored(s) ==
    [scoreState |-> ScoreState(s), accuracy |-> s.currentStats.accuracy]

\* C11: scoring is a function of the sequence of grades alone: after every
\* prefix of the judgement-event stream, a fresh tracker fed the events and a
\* fresh tracker fed only their grades have the same score, combo, maxCombo,
\* counts and accuracy, and after the whole stream both agree with the
\* engine's own tracker.
C11_Deterministic ==
    /\ \A k \in 0 .. Len(Events) :
          Scored(Replayed(InitialState, SubSeq(Events, 1, k), TRUE))
             = Scored(Replayed(InitialState, SubSeq(Events, 1, k), FALSE))
    /\ Scored(state) = Scored(Replayed(InitialState, Events, TRUE))

\* C11 witness: the stream holds a jack, a hit with a deviation and a miss, on
\* more than one lane.
C11_Witness ==
    /\ \E k \in DOMAIN Events : Events[k].isJack
    /\ \E k \in DOMAIN Events : Events[k].diff # 0 /\ Events[k].col # 0
    /\ \E k \in DOMAIN Events : Events[k].type = "miss"

\* C12 as claimed: a key-down that finds no candidate note in the control's
\* two lanes judges nothing, leaves processedIndices, holdingIndices and
\* ScoreState as they were, and changes nothing but the key-down state of one
\* lane of that control (and the control's own pressed flag).
C12_WhiffChangesOnlyKeyState ==
    [][\A code \in InputCodes :
          (KeyDown(code) /\ PendingCandidates(code) = {}) =>
             /\ NewEvents = << >>
             /\ state'.processedIndices = state.processedIndices
             /\ state'.holdingIndices = state.holdingIndices
             /\ ScoreState(state') = ScoreState(state)
             /\ \E l \in ControlLanes(code) :
                   state' = [state EXCEPT
                               !.keyState[l] = TRUE,
                               !.inputState[KEY_INDEX_MAP[code]] = TRUE]]_vars

\* the stream of simultaneous-hit events
FlashEvents == state.flashEvents

\* the simultaneous-hit events the step emits
NewFlashes ==
    SubSeq(state'.flashEvents, Len(state.flashEvents) + 1,
           Len(state'.flashEvents))

\* the judgement events of a stream with a grade other than Miss
Hits(evs) == {k \in DOMAIN evs : evs[k].type # "miss"}

\* every note of the chart has a non-Miss judgement in the stream
AllHit(evs) == \A i \in Notes : \E k \in Hits(evs) : evs[k].idx = i

\* C13 as claimed: at the key-down that completes the judging (non-Miss) of
\* the three notes of the chord chart, if the three judgements lie within
\* 30 ms of engine clock then exactly one simultaneous-hit event has been
\* emitted and it carries the three lanes, and if every two of the
\* judgements are 50 ms or more apart then none has been emitted.
C13_ChordAsClaimed ==
    [][(AllHit(state'.events) /\ ~ AllHit(Events)) =>
          LET evs == state'.events
              fl == state'.flashEvents
          IN  /\ (\A j, k \in Hits(evs) : Abs(evs[j].time - evs[k].time) <= 30)
                    => /\ Len(fl) = 1
                       /\ fl[1].cols = {hitObjects[i].column : i \in Notes}
              /\ (\A j, k \in Hits(evs) :
                      j # k => Abs(evs[j].time - evs[k].time) >= 50)
                    => fl = << >>]_vars

\* the lanes of the notes of a stream judged (non-Miss) within the last 40 ms
\* before engine clock t
LanesJudgedWithin40(evs, t) ==
    {evs[k].col : k \in {h \in Hits(evs) : t - evs[h].time <= 40}}

\* C14 as claimed: a step emits a simultaneous-hit event only when it emits a
\* non-Miss judgement event, and the event's lane set is the set of distinct
\* lanes, at least 2, of the notes judged within the last 40 ms of engine
\* clock.
C14_FlashOnlyOnHit ==
    [][NewFlashes # << >> =>
          /\ Len(NewFlashes) = 1
          /\ \E k \in DOMAIN NewEvents : NewEvents[k].type # "miss"
          /\ NewFlashes[1].cols = LanesJudgedWithin40(state'.events, clock)
          /\ Cardinality(NewFlashes[1].cols) >= 2]_vars

\* the Held set of an engine state
Held(s) == {s.holdingIndices[k] : k \in DOMAIN s.holdingIndices}

\* C15: a key-down, which always runs the pattern classifier, changes the
\* judging state by nothing but the judgement it makes itself: at most one
\* note is judged, processedIndices grows by that note, Held grows by it when
\* it is a hold note, ScoreState changes by that one grade, and with no
\* judgement all of these and the live stats are unchanged -- whether or not
\* a simultaneous-hit event is emitted.
C15_ClassifierReadOnly ==
    [][\A code \in InputCodes :
          KeyDown(code) =>
             LET judged == {NewEvents[k].idx : k \in DOMAIN NewEvents}
             IN  /\ Len(NewEvents) <= 1
                 /\ state'.processedIndices = state.processedIndices \cup judged
                 /\ Held(state') =
                       Held(state)
                          \cup {i \in judged : hitObjects[i].endTime # 0}
                 /\ ScoreState(state') = FoldedAll(ScoreState(state), NewEvents)
                 /\ NewEvents = << >> =>
                       /\ state'.currentStats = state.currentStats
                       /\ state'.hitDeviations = state.hitDeviations]_vars

\* C15 witness: the classifier has emitted a simultaneous-hit event after a
\* judgement and another one after a key-down that judged nothing.
C15_Witness ==
    /\ Len(FlashEvents) = 2
    /\ Len(Events) = 2
    /\ FlashEvents[1].cols = {0, 2}
    /\ Held(state) = {1}

\* C16: after every step, each note in the Held set is a hold note (it has an
\* endTime), is processed and has a non-Miss judgement event; a note that
\* enters the Held set does so in the step that emits that event; hence a
\* Pending or a Missed note is never Held.
C16_HeldAreHitHolds ==
    [][\A i \in Held(state') :
          /\ hitObjects[i].endTime # 0
          /\ i \in state'.processedIndices
          /\ \E k \in DOMAIN state'.events :
                state'.events[k].idx = i /\ state'.events[k].type # "miss"
          /\ i \notin Held(state) =>
                \E k \in DOMAIN NewEvents :
                   NewEvents[k].idx = i /\ NewEvents[k].type # "miss"]_vars

\* C16 witness: both hold notes of the hold chart are Held, the tap note
\* judged with them is not, and the three judgements are not Misses.
C16_Witness ==
    /\ hitObjects = HoldScenario.hitObjects
    /\ Held(state) = {1, 3}
    /\ state.processedIndices = {1, 2, 3}
    /\ state.miss = 0

\* C17 as claimed: after the key-up of a control has been processed, no hold
\* note in either of that control's two lanes is in the Held set.
C17_KeyUpReleasesLanes ==
    [][\A code \in InputCodes :
          KeyUp(code) =>
             \A i \in Held(state') :
                hitObjects[i].column \notin ControlLanes(code)]_vars

\* C18 as claimed: once the player has exited mid-chart (the application is in
\* MENU, the clock stands between the start and the end of the track; no new
\* game is started here), the engine takes no further step and the run
\* delivers no game-end callback: the application stays in MENU with no stats.
C18_ExitIsFinal ==
    [][(gameState = "MENU" /\ clock > 0 /\ clock < Scenario.duration) =>
          /\ gameState' = "MENU"
          /\ stats' = << >>
          /\ state' = state]_vars

\* the decoded Timeline, once parseOsuText has returned
Timeline == parser.hitObjects

Decoded == parser.status = "done"

\* a <= b of JavaScript numbers: false when either is NaN
JsLeq(a, b) == ~ IsNaN(a) /\ ~ IsNaN(b) /\ Val(a) <= Val(b)

\* C19 as claimed: the decoded Timeline is sorted non-decreasing by time.
C19_TimelineSorted ==
    Decoded =>
       \A i, j \in DOMAIN Timeline :
          i < j => JsLeq(Timeline[i].time, Timeline[j].time)

\* C20 as claimed: every note of the decoded Timeline has an integer lane in
\* [0, 7].
C20_LaneInRange ==
    Decoded =>
       \A i \in DOMAIN Timeline :
          /\ ~ IsNaN(Timeline[i].column)
          /\ Val(Timeline[i].column) \in 0 .. 7

\* a > b of JavaScript numbers: false when either is NaN
JsGt(a, b) == ~ IsNaN(a) /\ ~ IsNaN(b) /\ Val(a) > Val(b)

\* the hold notes of the decoded Timeline: the notes with the type bit 128
HoldNotes == {i \in DOMAIN Timeline : IsHoldType(Timeline[i].type)}

\* C21 as claimed: every hold note of the decoded Timeline has an endTime,
\* and endTime > time.
C21_HoldEndsAfterStart ==
    Decoded =>
       \A i \in HoldNotes :
          /\ Timeline[i].endTime # << >>
          /\ JsGt(Timeline[i].endTime[1], Timeline[i].time)

\* the two lanes a raw 4K column expands to
LanePair(c) ==
    CASE c = 0 -> << 5, 4 >>
      [] c = 1 -> << 6, 7 >>
      [] c = 2 -> << 0, 1 >>
      [] c = 3 -> << 2, 3 >>

\* the lane of a 4K note at raw column c: the first lane of the pair when
\* floor(time / 20) + c is even, the second when it is odd
FourKeyLane(time, c) ==
    IF ((time \div 20) + c) % 2 = 0 THEN LanePair(c)[1] ELSE LanePair(c)[2]

\* C22: in a chart decoded with circleSize = 4, a note with numeric x and
\* time whose raw column c = floor(x * 4 / 512) is one of 0..3 has the lane
\* FourKeyLane(time, c); so two notes with the same x and time have the same
\* lane.
C22_FourKeyLanes ==
    (Decoded /\ parser.circleSize = Num(4)) =>
       /\ \A i \in DOMAIN Timeline :
             LET n == Timeline[i]
                 c == (Val(n.x) * 4) \div 512
             IN  (~ IsNaN(n.x) /\ ~ IsNaN(n.time) /\ c \in 0 .. 3) =>
                    n.column = Num(FourKeyLane(Val(n.time), c))
       /\ \A i, j \in DOMAIN Timeline :
             (Timeline[i].x = Timeline[j].x
                /\ Timeline[i].time = Timeline[j].time)
                => Timeline[i].column = Timeline[j].column

\* C22 witness: a 4K chart has been decoded to three notes, of raw columns 0,
\* 2 and 3, on lanes 4 (odd), 1 (odd) and 2 (even).
C22_Witness ==
    /\ Decoded
    /\ parser.circleSize = Num(4)
    /\ Len(Timeline) = 3
    /\ {<<Timeline[i].x, Timeline[i].time, Timeline[i].column>> :
           i \in DOMAIN Timeline}
          = {<<Num(64), Num(500), Num(4)>>, <<Num(320), Num(1020), Num(1)>>,
             <<Num(448), Num(500), Num(2)>>}

\* the valid markers of the chart text, in the order of their times (text
\* order among equal times), each with its bucketed beat length in tenths,
\* and the time (thousandths) its attributed duration runs to
Markers == SortedRedPoints(RedPoints(parser.timingPoints))

MarkerBucket(k) == RoundedBL(Markers[k].beatLength)

MarkerDuration(k) ==
    LET to == IF k = Len(Markers) THEN LastObjTime(Timeline)
              ELSE Val(Markers[k + 1].time)
    IN  IF to > Val(Markers[k].time) THEN to - Val(Markers[k].time) ELSE 0

\* the cumulative duration attributed to a bucket
RECURSIVE BucketDuration(_, _)
BucketDuration(bucket, k) ==
    IF k = 0 THEN 0
    ELSE (IF MarkerBucket(k) = bucket THEN MarkerDuration(k) ELSE 0)
            + BucketDuration(bucket, k - 1)

\* the first marker whose bucket has the greatest cumulative duration
PrimaryMarker ==
    CHOOSE k \in DOMAIN Markers :
       /\ \A j \in DOMAIN Markers :
             BucketDuration(MarkerBucket(j), Len(Markers))
                <= BucketDuration(MarkerBucket(k), Len(Markers))
       /\ \A j \in 1 .. (k - 1) :
             BucketDuration(MarkerBucket(j), Len(Markers))
                < BucketDuration(MarkerBucket(k), Len(Markers))

\* C23 as claimed: the tempo of a decoded chart is 60000 / beatLength
\* (rounded to a whole number) of the bucketed beat length with the greatest
\* cumulative attributed duration, the first-seen such marker winning a tie,
\* and 120 when the chart has no valid marker.
C23_PrimaryTempo ==
    Decoded =>
       IF Markers = << >> THEN parser.bpm = 120
       ELSE LET bucket == MarkerBucket(PrimaryMarker)
            IN  parser.bpm * 2 * bucket \in
                   (1200000 - bucket + 1) .. (1200000 + bucket)

\* a HitObjects line is malformed when one of its five leading fields is
\* missing or not a number, or when it is a hold line without its extra field
Malformed(parts) ==
    \/ \E k \in 1 .. 5 : IsNaN(parseInt(Part(parts, k)))
    \/ IsHoldType(parseInt(Part(parts, 4))) /\ Len(parts) < 6

\* the well-formed HitObjects lines of the chart text
WellFormedLines ==
    {k \in DOMAIN parser.text :
        /\ parser.text[k].kind = "fields"
        /\ ~ Malformed(parser.text[k].parts)}

\* C24 as claimed: decoding does not fail on a malformed HitObjects line, and
\* the decoded Timeline has one note for each well-formed line and none for a
\* malformed one.
C24_MalformedLinesSkipped ==
    /\ parser.status # "threw"
    /\ Decoded => Len(Timeline) = Cardinality(WellFormedLines)

-----------------------------------------------------------------------------
(* Uploading chart containers: parseOSZ (src/utils/osuParser.ts) and        *)
(* handleFileUpload (src/App.tsx)                                           *)

\* most files of one upload, and the library size up to which uploads start
MaxFiles == 2
MaxLibrary == 3

\* A chart container (a readable archive), by what the steps of parseOSZ meet:
\*   osu    "absent"      no entry whose name ends in .osu
\*          "unreadable"  the entry's text comes back empty or undefined
\*          "throws"      parseOsuText throws on the text (ParseHitObjectLine)
\*          "decodes"     parseOsuText returns a chart
\*   audio  "absent"      no entry named as the chart's AudioFilename
\*          "undecodable" decodeAudioData rejects
\*          "decodes"     decodeAudioData resolves
\* (the audio entry is not looked at unless the chart text decodes)
Containers ==
    {c \in [osu : {"absent", "unreadable", "throws", "decodes"},
            audio : {"absent", "undecodable", "decodes"}] :
        c.osu # "decodes" => c.audio = "absent"}

Thrown(message) == [ok |-> FALSE, message |-> message]

Returned(data) == [ok |-> TRUE, data |-> data]

\* a variant of parseOSZ that returns an empty chart for a container without
\* chart text
parseOSZ_EmptyChartWhenMissing(file) ==
    IF file.osu \in {"unreadable", "throws"} THEN Thrown("Could not read")
    ELSE IF file.osu = "decodes" /\ file.audio = "undecodable"
    THEN Thrown("EncodingError")
    ELSE Returned([of |-> file, audioBuffer |-> file.audio = "decodes"])

\* parseOSZ(file): the chart it returns or the error it throws
parseOSZ(file) ==
    IF file.osu = "absent"
    THEN Thrown("No .osu file found in the archive.")
    ELSE IF file.osu = "unreadable"
    THEN Thrown("Could not read .osu file.")
    ELSE IF file.osu = "throws"
    THEN Thrown("Cannot read properties of undefined (reading 'split')")
    ELSE IF file.audio = "undecodable"
    THEN Thrown("EncodingError")
    ELSE Returned([of |-> file, audioBuffer |-> file.audio = "decodes"])

\* a handleFileUpload call is in flight
Uploading == app.upload # << >>

\* the promise of the mount effect settles in the microtask that follows the
\* effect: no event of the user is handled before
DemoSettled == app.demo # "pending"

\* generateDemoTrack() has returned a chart: setLibrary([demo])
DemoResolved ==
    /\ app.demo = "pending"
    /\ app' = [app EXCEPT !.library = << DemoChart >>, !.demo = "resolved"]
    /\ EngineUnchanged
    /\ UNCHANGED <<parser, unmappedKeys>>

\* generateDemoTrack() has thrown (no AudioContext, no memory for the
\* buffer): the promise is rejected and the library stays empty
DemoRejected ==
    /\ app.demo = "pending"
    /\ app' = [app EXCEPT !.demo = "rejected"]
    /\ EngineUnchanged
    /\ UNCHANGED <<parser, unmappedKeys>>

\* handleFileUpload up to its first await: the loading overlay covers the menu
\* while loading is true, so one call is in flight at a time
handleFileUpload(files) ==
    /\ gameState = "MENU"
    /\ DemoSettled
    /\ ~ app.loading
    /\ Len(app.library) < MaxLibrary
    /\ app' = [app EXCEPT !.loading = TRUE, !.error = << >>,
                          !.batch = files,
                          !.upload = << [files |-> files, i |-> 1,
                                         newSongs |-> << >>,
                                         library |-> app.library] >>]
    /\ EngineUnchanged
    /\ UNCHANGED <<parser, unmappedKeys>>

\* fault: a failing file that leaves the charts decoded before it in the
\* library
UploadParsed_KeepsDecoded ==
    /\ Uploading
    /\ LET u == app.upload[1]
           r == parseOSZ(u.files[u.i])
       IN  /\ u.i <= Len(u.files)
           /\ app' = IF r.ok
                     THEN [app EXCEPT !.upload = << [u EXCEPT
                               !.i = u.i + 1,
                               !.newSongs = Append(u.newSongs, r.data)] >>]
                     ELSE [app EXCEPT !.error = << r.message >>,
                                      !.library = @ \o u.newSongs,
                                      !.loading = FALSE,
                                      !.upload = << >>]
    /\ EngineUnchanged
    /\ UNCHANGED <<parser, unmappedKeys>>

\* `await parseOSZ(files[i])` settles: the chart is pushed on newSongs, or the
\* catch and finally blocks run
UploadParsed ==
    /\ Uploading
    /\ LET u == app.upload[1]
           r == parseOSZ(u.files[u.i])
       IN  /\ u.i <= Len(u.files)
           /\ app' = IF r.ok
                     THEN [app EXCEPT !.upload = << [u EXCEPT
                               !.i = u.i + 1,
                               !.newSongs = Append(u.newSongs, r.data)] >>]
                     ELSE [app EXCEPT !.error = << r.message >>,
                                      !.loading = FALSE,
                                      !.upload = << >>]
    /\ EngineUnchanged
    /\ UNCHANGED <<parser, unmappedKeys>>

\* fault: the new selection is one past the last chart
UploadDone_SelectsPastEnd ==
    /\ Uploading
    /\ LET u == app.upload[1]
       IN  /\ u.i > Len(u.files)
           /\ app' = [app EXCEPT
                  !.library = app.library \o u.newSongs,
                  !.selectedSongIndex = Len(u.library) + Len(u.newSongs),
                  !.loading = FALSE,
                  !.upload = << >>]
    /\ EngineUnchanged
    /\ UNCHANGED <<parser, unmappedKeys>>

\* after the loop: setLibrary, setSelectedSongIndex with the library of the
\* render the handler closed over, then the finally block
UploadDone ==
    /\ Uploading
    /\ LET u == app.upload[1]
       IN  /\ u.i > Len(u.files)
           /\ app' = [app EXCEPT
                  !.library = app.library \o u.newSongs,
                  !.selectedSongIndex = Len(u.library) + Len(u.newSongs) - 1,
                  !.loading = FALSE,
                  !.upload = << >>]
    /\ EngineUnchanged
    /\ UNCHANGED <<parser, unmappedKeys>>

\* a click on an entry of the song list
SelectSong(idx) ==
    /\ gameState = "MENU"
    /\ DemoSettled
    /\ ~ app.loading
    /\ idx \in 0 .. Len(app.library) - 1
    /\ app' = [app EXCEPT !.selectedSongIndex = idx]
    /\ EngineUnchanged
    /\ UNCHANGED <<parser, unmappedKeys>>

\* App.handleStartGame: the START button (reachable by keyboard under the
\* loading overlay); the engine's side of the game is Spec
handleStartGame ==
    /\ gameState = "MENU"
    /\ DemoSettled
    /\ app.selectedSongIndex + 1 \in DOMAIN app.library
    /\ gameState' = "PLAYING"
    /\ UNCHANGED <<unmappedKeys, app, parser, hitObjects,
                   clock, state, onendedStats, sourceNode, stats>>

\* the game is left for the menu (onExit, or the results screen's way back)
LeaveGame ==
    /\ Playing
    /\ returnToMenu
    /\ UNCHANGED <<unmappedKeys, app, parser, hitObjects,
                   clock, state, onendedStats, sourceNode>>

UploadInit ==
    /\ parser = NoParser
    /\ hitObjects = << >>
    /\ clock = 0
    /\ state = InitialState
    /\ onendedStats = InitialStats
    /\ sourceNode = "none"
    /\ gameState = "MENU"
    /\ app = AppMounted
    /\ unmappedKeys = 0
    /\ stats = << >>

UploadNext ==
    \/ \E files \in SeqsUpTo(Containers, MaxFiles) \ {<< >>} :
          handleFileUpload(files)
    \/ UploadParsed
    \/ UploadDone
    \/ \E idx \in 0 .. MaxLibrary + MaxFiles : SelectSong(idx)
    \/ DemoResolved
    \/ DemoRejected
    \/ handleStartGame
    \/ LeaveGame

UploadSpec == UploadInit /\ [][UploadNext]_vars

\* the file whose parseOSZ call is pending
PendingFile == app.upload[1].files[app.upload[1].i]

\* the container has no chart text entry, or chart text or audio that cannot
\* be read or decoded
Unloadable(file) ==
    \/ file.osu \in {"absent", "unreadable", "throws"}
    \/ file.audio = "undecodable"

\* C25: when parseOSZ settles for a container without chart text, or with
\* chart text or audio that cannot be read or decoded, the upload ends with
\* the error set, the library is what it was, and no chart of that container
\* is in it unless it was there before.
C25_LoadFailureSurfaced ==
    [][(Uploading /\ app.upload[1].i <= Len(app.upload[1].files)
          /\ Unloadable(PendingFile) /\ app' # app)
        => /\ app'.error # << >>
           /\ ~ app'.loading
           /\ app'.upload = << >>
           /\ app'.library = app.library
           /\ app'.selectedSongIndex = app.selectedSongIndex]_vars

\* an upload has failed on a container without chart text, after an earlier
\* upload had added a chart to the library
C25_Witness ==
    /\ app.error = << "No .osu file found in the archive." >>
    /\ ~ app.loading
    /\ Len(app.library) > 1

-----------------------------------------------------------------------------
(* Key events whose code is no key of INPUT_MAPPING *)

\* most unmapped key events of a run
MaxUnmapped == 2

\* codes the keyboard sends that are neither keys of INPUT_MAPPING nor Escape
\* (Escape calls onExit: the action Exit)
UnmappedCodes == {"KeyA", "Space"}

\* a keydown event with an unmapped code reaches the listener
UnmappedKeyDown(code) ==
    /\ Playing
    /\ unmappedKeys < MaxUnmapped
    /\ \E rnd \in 0 .. 1 :
          state' = handleKeyDown(state, hitObjects, code, clock, rnd)
    /\ unmappedKeys' = unmappedKeys + 1
    /\ UNCHANGED <<app, parser, hitObjects, clock, onendedStats, sourceNode,
                   gameState, stats>>

\* a keyup event with an unmapped code reaches the listener
UnmappedKeyUp(code) ==
    /\ Playing
    /\ unmappedKeys < MaxUnmapped
    /\ state' = handleKeyUp(state, hitObjects, code)
    /\ unmappedKeys' = unmappedKeys + 1
    /\ UNCHANGED <<app, parser, hitObjects, clock, onendedStats, sourceNode,
                   gameState, stats>>

UnmappedInit == Mounted(TwoHoldsScenario.hitObjects)

UnmappedNext ==
    \/ Next
    \/ \E code \in UnmappedCodes : UnmappedKeyDown(code)
    \/ \E code \in UnmappedCodes : UnmappedKeyUp(code)

UnmappedSpec == UnmappedInit /\ [][UnmappedNext]_vars

\* C26: a keydown or keyup event whose code is none of the four mapped
\* controls leaves the engine state as it was: the judged notes, the score
\* and counters, the held notes, keyState and inputState, and the event
\* stream; the run goes on.
C26_UnmappedKeyIgnored ==
    [][unmappedKeys' # unmappedKeys
        => /\ state' = state
           /\ gameState' = gameState
           /\ sourceNode' = sourceNode
           /\ stats' = stats]_vars

\* an unmapped key event has arrived while a hold note was held and a note had
\* been judged
C26_Witness ==
    /\ unmappedKeys > 0
    /\ state.holdingIndices # << >>
    /\ state.processedIndices # {}
    /\ \E l \in Lanes : state.keyState[l]

-----------------------------------------------------------------------------
(* generateDemoTrack (src/utils/osuParser.ts): the procedural demo chart *)

\* the iterations of the note loop the model runs
MaxDemoSteps == 3

DEMO_DURATION == 60
DEMO_BPM == 120
DEMO_FIRST_TIME == 2000

\* beatInterval = 60000 / bpm
beatInterval == 60000 \div DEMO_BPM

\* fault: a hold note that ends where it starts
DemoNote_HoldEndsAtStart(t, col, isHold) ==
    [x |-> 0, y |-> 0, time |-> t, type |-> IF isHold THEN 128 ELSE 1,
     hitSound |-> 0, column |-> col, endTime |-> IF isHold THEN t ELSE 0]

\* the note pushed at time t; endTime 0 stands for undefined
DemoNote(t, col, isHold) ==
    [x |-> 0, y |-> 0, time |-> t, type |-> IF isHold THEN 128 ELSE 1,
     hitSound |-> 0, column |-> col,
     endTime |-> IF isHold THEN t + beatInterval ELSE 0]

\* the values Math.floor(Math.random() * 8) takes: Math.random() is in [0, 1)
DemoColumns == 0 .. 7

\* generateDemoTrack() at the head of its note loop
DemoInit ==
    /\ parser = [status |-> "generating", t |-> DEMO_FIRST_TIME,
                 hitObjects |-> << >>, bpm |-> DEMO_BPM]
    /\ hitObjects = << >>
    /\ clock = 0
    /\ state = InitialState
    /\ onendedStats = InitialStats
    /\ sourceNode = "none"
    /\ gameState = "MENU"
    /\ app = AppMounted
    /\ stats = << >>
    /\ unmappedKeys = 0

\* the loop condition t < duration * 1000, within the iterations modelled
DemoLooping ==
    /\ parser.status = "generating"
    /\ parser.t < DEMO_DURATION * 1000
    /\ parser.t < DEMO_FIRST_TIME + MaxDemoSteps * (beatInterval \div 2)

\* an iteration in which Math.random() > 0.3 is false
DemoSkip ==
    /\ DemoLooping
    /\ parser' = [parser EXCEPT !.t = @ + beatInterval \div 2]
    /\ EngineUnchanged
    /\ UNCHANGED <<app, unmappedKeys>>

\* an iteration that pushes a note
DemoPush ==
    /\ DemoLooping
    /\ \E col \in DemoColumns, isHold \in BOOLEAN :
          parser' = [parser EXCEPT
                !.hitObjects = Append(@, DemoNote(parser.t, col, isHold)),
                !.t = @ + beatInterval \div 2]
    /\ EngineUnchanged
    /\ UNCHANGED <<app, unmappedKeys>>

\* the loop is left and the chart returned; the mount effect of App puts it in
\* the library
DemoReturn ==
    /\ parser.status = "generating"
    /\ ~ DemoLooping
    /\ parser' = [parser EXCEPT !.status = "generated"]
    /\ app' = [app EXCEPT !.library = << DemoChart >>, !.demo = "resolved"]
    /\ EngineUnchanged
    /\ UNCHANGED unmappedKeys

DemoNext ==
    \/ DemoSkip
    \/ DemoPush
    \/ DemoReturn

DemoSpec == DemoInit /\ [][DemoNext]_vars

\* the notes the generator has pushed
DemoTimeline == parser.hitObjects

\* C27: at every point of generateDemoTrack, and so in the chart it returns,
\* the notes are in non-decreasing time order, every lane is in 0..7 and every
\* hold note (type 128) has an endTime greater than its time.
C27_DemoTimelineValid ==
    parser.status \in {"generating", "generated"} =>
       /\ \A i, j \in DOMAIN DemoTimeline :
             i < j => DemoTimeline[i].time <= DemoTimeline[j].time
       /\ \A i \in DOMAIN DemoTimeline :
             /\ DemoTimeline[i].column \in 0 .. 7
             /\ DemoTimeline[i].type = 128 =>
                   DemoTimeline[i].endTime > DemoTimeline[i].time

\* a returned demo chart with a hold note on lane 7 followed by a tap note
C27_Witness ==
    /\ parser.status = "generated"
    /\ \E i, j \in DOMAIN DemoTimeline :
          /\ i < j
          /\ DemoTimeline[i].type = 128
          /\ DemoTimeline[i].column = 7
          /\ DemoTimeline[j].type = 1

-----------------------------------------------------------------------------
(* The engine on a long stream: more hits than the deviation window holds *)

\* the notes of the stream the player hits
MaxStream == 32

\* tap notes on lane 0, 100 ms apart; the player hits the first MaxStream of
\* them in order and lets the last one go by
StreamScenario ==
    [hitObjects |-> [k \in 1 .. MaxStream + 1 |-> HitObject(100 * k, 0, 0)],
     keys |-> {"KeyJ"},
     offsets |-> [k \in 1 .. MaxStream |->
                     IF k \in {1, 2, MaxStream} THEN {-20, 0, 60} ELSE {0}],
     duration |-> 100 * (MaxStream + 1) + 300]

StreamInit == Mounted(StreamScenario.hitObjects)

\* the next note of the stream to hit
StreamNote == Cardinality(state.processedIndices) + 1

\* the key-down for the next note of the stream, at one of the note's offsets
StreamPress ==
    /\ Playing
    /\ StreamNote <= MaxStream
    /\ \E d \in StreamScenario.offsets[StreamNote] :
          LET p == hitObjects[StreamNote].time + d
          IN  /\ p > clock
              /\ clock' = p
              /\ \E rnd \in 0 .. 1 :
                    state' = handleKeyDown(state, hitObjects, "KeyJ", p, rnd)
    /\ UNCHANGED <<unmappedKeys, app, parser, hitObjects,
                   onendedStats, sourceNode, gameState, stats>>

\* the key is released some time after a press
StreamRelease ==
    /\ state.inputState[KEY_INDEX_MAP["KeyJ"]]
    /\ KeyUp("KeyJ")

\* an animation frame after the last hit, late enough for the miss scan to
\* take the remaining note
StreamFrame ==
    /\ Playing
    /\ StreamNote = MaxStream + 1
    /\ clock < StreamScenario.duration
    /\ clock' = StreamScenario.duration
    /\ state' = gameLoop(state, hitObjects, StreamScenario.duration)
    /\ UNCHANGED <<unmappedKeys, app, parser, hitObjects,
                   onendedStats, sourceNode, gameState, stats>>

StreamNext ==
    \/ StreamPress
    \/ StreamRelease
    \/ StreamFrame

StreamSpec == StreamInit /\ [][StreamNext]_vars

\* the deviation entries of a sequence of judgement events: one for each
\* event that is not a miss
RECURSIVE DeviationsOf(_)
DeviationsOf(evs) ==
    IF evs = << >> THEN << >>
    ELSE LET e == Head(evs)
         IN  (IF e.type = "miss" THEN << >>
              ELSE << [diff |-> e.diff, time |-> e.time, type |-> e.type] >>)
             \o DeviationsOf(Tail(evs))

\* the last n entries of a sequence
LastN(seq, n) ==
    IF Len(seq) <= n THEN seq ELSE SubSeq(seq, Len(seq) - n + 1, Len(seq))

\* C28: the window of hit deviations never holds more than 30 entries, and
\* every step leaves in it the last 30 of its old entries followed by the
\* entries of the step's hits: a hit on a full window drops the oldest entry
\* and appends the new one.
C28_RollingWindow ==
    [][/\ Len(state'.hitDeviations) <= 30
       /\ state'.hitDeviations =
             LastN(state.hitDeviations \o DeviationsOf(NewEvents), 30)]_vars

\* the window is full and has evicted: more than 30 hits have been made, and
\* the oldest entry left is that of the third hit
C28_Witness ==
    /\ Len(state.hitDeviations) = 30
    /\ Len(DeviationsOf(Events)) > 31
    /\ state.hitDeviations[1].time = 300


\* the combo after a sequence of judgement events: the length of its longest
\* suffix without a miss
RECURSIVE ComboAfter(_)
ComboAfter(evs) ==
    IF evs = << >> \/ evs[Len(evs)].type = "miss" THEN 0
    ELSE 1 + ComboAfter(SubSeq(evs, 1, Len(evs) - 1))

\* the largest combo reached after any judgement of the run so far
PeakCombo ==
    LET combos == {ComboAfter(SubSeq(Events, 1, k)) : k \in 0 .. Len(Events)}
    IN  CHOOSE c \in combos : \A d \in combos : d <= c

\* C29: maxCombo is at least combo, no step lowers it, and it is the largest
\* value combo has had after any judgement of the run.
C29_MaxCombo ==
    [][/\ state'.maxCombo >= state'.combo
       /\ state'.maxCombo >= state.maxCombo
       /\ state'.combo = ComboAfter(Events')
       /\ state'.maxCombo = PeakCombo']_vars

\* a streak of two, then a miss, then a new hit: combo 1 below maxCombo 2
C29_Witness ==
    /\ state.maxCombo = 2
    /\ state.combo = 1
    /\ state.miss >= 1


\* C30: every Miss event a step produces is produced by a frame (the clock
\* stands still and the event carries it), for a note that was Pending before
\* the step, at an engine clock more than 160 ms past the note's time; no
\* note is turned to Missed at engineClock - note.time <= 160.
C30_MissOnlyPastWindow ==
    [][\A k \in DOMAIN NewEvents :
          NewEvents[k].type = "miss" =>
             LET i == NewEvents[k].idx
             IN  /\ clock' = clock
                 /\ NewEvents[k].time = clock
                 /\ clock - hitObjects[i].time > 160
                 /\ i \notin state.processedIndices
                 /\ i \in state'.processedIndices]_vars

\* a note has been missed by the first frame past its Bad window, 161 ms after
\* its time, a frame at 160 ms having left it Pending
C30_Witness ==
    \E k \in DOMAIN Events :
       /\ Events[k].type = "miss"
       /\ Events[k].time - hitObjects[Events[k].idx].time = 161


\* C31: a key-up judges nothing: it emits no judgement event, leaves the set
\* of judged notes, score, combo, maxCombo, the four counts and the live
\* stats as they were, whatever the clock is relative to the endTime of the
\* hold notes it releases.
C31_KeyUpNeverGrades ==
    [][\A code \in InputCodes :
          KeyUp(code) =>
             /\ NewEvents = << >>
             /\ state'.processedIndices = state.processedIndices
             /\ ScoreState(state') = ScoreState(state)
             /\ state'.currentStats = state.currentStats
             /\ state'.hitDeviations = state.hitDeviations]_vars

\* both hold notes of the hold chart have been hit and released by clock
\* 380, before their endTimes 500 and 450; they stay judged and the combo
\* stands
C31_Witness ==
    /\ hitObjects = HoldScenario.hitObjects
    /\ clock = 380
    /\ {1, 3} \subseteq state.processedIndices
    /\ Held(state) = {}
    /\ state.combo >= 2
    /\ state.miss = 0


\* the engine state with every lane's last successful hit gap ms before the
\* clock
WithLastHitGap(gap) ==
    [state EXCEPT !.lastHitTimes = [l \in Lanes |-> clock - gap]]

\* the key-down of a control at the clock, run from the state in which the
\* last hit of every lane lies gap ms back
KeyDownWithGap(code, rnd, gap) ==
    handleKeyDown(WithLastHitGap(gap), hitObjects, code, clock, rnd)

\* the judgement events a run of the key-down adds to the stream
AddedEvents(s) == SubSeq(s.events, Len(state.events) + 1, Len(s.events))

\* a judgement event without its jack flag
Unflagged(e) ==
    [idx |-> e.idx, type |-> e.type, col |-> e.col, diff |-> e.diff,
     time |-> e.time]

\* C32: in every reachable state, the key-down of a control run once with the
\* lane's last hit 50 ms back (inside the jack window) and once with it 500
\* ms back (outside) judges the same note with the same diff and grade and
\* ends in the same ScoreState, judged set, Held set and live stats; the two
\* runs differ in nothing but the jack flag of the event.
C32_JackIsCosmetic ==
    \A code \in InputCodes, rnd \in 0 .. 1 :
       LET jack == KeyDownWithGap(code, rnd, 50)
           plain == KeyDownWithGap(code, rnd, 500)
       IN  /\ Len(AddedEvents(jack)) = Len(AddedEvents(plain))
           /\ \A k \in DOMAIN AddedEvents(jack) :
                 Unflagged(AddedEvents(jack)[k])
                    = Unflagged(AddedEvents(plain)[k])
           /\ ScoreState(jack) = ScoreState(plain)
           /\ jack.currentStats = plain.currentStats
           /\ jack.processedIndices = plain.processedIndices
           /\ jack.holdingIndices = plain.holdingIndices

\* a state whose stream holds a jack, and in which a key-down of KeyJ is
\* flagged in the run with the 50 ms gap and not in the run with the 500 ms
\* gap
C32_Witness ==
    /\ \E k \in DOMAIN Events : Events[k].isJack
    /\ LET jack == KeyDownWithGap("KeyJ", 0, 50)
           plain == KeyDownWithGap("KeyJ", 0, 500)
       IN  /\ Len(AddedEvents(jack)) = 1
           /\ Len(AddedEvents(plain)) = 1
           /\ AddedEvents(jack)[1].isJack
           /\ ~ AddedEvents(plain)[1].isJack


\* the hits (events other than Miss) on the lane of event k that precede it in
\* the stream
EarlierHits(k) ==
    {j \in 1 .. k - 1 :
        Events[j].type # "miss" /\ Events[j].col = Events[k].col}

\* the engine-clock time of the last of them
LastHitTime(k) ==
    Events[CHOOSE j \in EarlierHits(k) : \A m \in EarlierHits(k) : m <= j].time

\* C33 as claimed: a hit (an event other than Miss) carries the jack flag
\* exactly when its lane has an earlier hit and the gap from the last of them
\* is more than 0 and less than 130 ms.
C33_JackIffRapidRepeat ==
    \A k \in DOMAIN Events :
       Events[k].type # "miss" =>
          (Events[k].isJack <=>
              /\ EarlierHits(k) # {}
              /\ Events[k].time - LastHitTime(k) > 0
              /\ Events[k].time - LastHitTime(k) < 130)


\* C34: the four counts add up to the number of notes that are no longer
\* Pending, which is at most the number of notes of the chart; the raw score
\* is 300 * perfect + 100 * good + 50 * bad; the combo is at most the number
\* of hits.
C34_CountersAddUp ==
    LET hits == state.perfect + state.good + state.bad
    IN  /\ hits + state.miss = Cardinality(state.processedIndices)
        /\ hits + state.miss <= Len(hitObjects)
        /\ state.score
              = 300 * state.perfect + 100 * state.good + 50 * state.bad
        /\ state.combo <= hits

\* every note of the four-note chart is judged, with a Bad and a Miss among
\* the grades and the combo below the number of hits
C34_Witness ==
    /\ Len(hitObjects) = 4
    /\ Cardinality(state.processedIndices) = 4
    /\ state.bad >= 1
    /\ state.miss >= 1
    /\ state.combo < state.perfect + state.good + state.bad


\* diff lies in a grade window: Perfect or Good (|diff| <= 120) or Bad (early
\* by more than 120 and at most 160)
InGradeWindow(d) == Abs(d) <= 120 \/ (d > 120 /\ d <= 160)

\* the candidates of the control with the least |note.time - engineClock|
NearestCandidates(code) ==
    {i \in PendingCandidates(code) :
        \A j \in PendingCandidates(code) : Abs(Diff(i)) <= Abs(Diff(j))}

\* C35: a key-down judges at most one note, and only a candidate with the
\* least |note.time - engineClock| of the control's two lanes; when no
\* nearest candidate lies in a grade window it judges nothing and leaves every
\* note Pending that was, even if a farther candidate lies in a grade window.
C35_OnlyNearestIsJudged ==
    [][\A code \in InputCodes :
          KeyDown(code) =>
             /\ Len(NewEvents) <= 1
             /\ \A k \in DOMAIN NewEvents :
                   NewEvents[k].idx \in NearestCandidates(code)
             /\ (\A i \in NearestCandidates(code) : ~ InGradeWindow(Diff(i)))
                   => /\ NewEvents = << >>
                      /\ state'.processedIndices = state.processedIndices
                      /\ ScoreState(state') = ScoreState(state)]_vars

\* clock 330 of the late-nearest chart, after a key-down of KeyJ (lane 0, the
\* lane of the nearest note, is down): the nearest note is 130 ms late, the
\* other one is 150 ms early, inside the Bad window, and both are Pending
C35_Witness ==
    /\ hitObjects = LateNearestScenario.hitObjects
    /\ clock = 330
    /\ state.keyState[0]
    /\ state.inputState[KEY_INDEX_MAP["KeyJ"]]
    /\ state.processedIndices = {}
    /\ NearestCandidates("KeyJ") = {1}
    /\ ~ InGradeWindow(Diff(1))
    /\ 2 \in PendingCandidates("KeyJ") /\ InGradeWindow(Diff(2))


\* the grade of a diff inside a grade window
ClaimedGrade(d) ==
    IF Abs(d) <= 80 THEN "perfect" ELSE IF Abs(d) <= 120 THEN "good" ELSE "bad"

\* the choice among the nearest candidates: the first-listed lane of the
\* control that has one, and in that lane the lowest timeline index
TieBreak(code) ==
    LET lanes == INPUT_MAPPING[code]
        near == NearestCandidates(code)
        InLane(k) == {i \in near : hitObjects[i].column = lanes[k]}
        first == CHOOSE k \in DOMAIN lanes :
                    /\ InLane(k) # {}
                    /\ \A m \in DOMAIN lanes : InLane(m) # {} => k <= m
    IN  CHOOSE i \in InLane(first) : \A j \in InLane(first) : i <= j

\* C36: the judgement of a key-down is determined by the timeline, the set
\* of judged notes, the clock and the control: whatever Math.random() yields,
\* the same events result; the note judged is the nearest candidate, among
\* equidistant ones that of the first-listed lane of the control and in it
\* the one with the lowest timeline index, and it is graded by its diff.
C36_DeterministicChoice ==
    [][\A code \in InputCodes :
          KeyDown(code) =>
             /\ \A rnd \in 0 .. 1 :
                   LET run == handleKeyDown(state, hitObjects, code, clock, rnd)
                   IN  /\ run.events = state'.events
                       /\ run.processedIndices = state'.processedIndices
                       /\ ScoreState(run) = ScoreState(state')
             /\ \A k \in DOMAIN NewEvents :
                   /\ NewEvents[k].idx = TieBreak(code)
                   /\ NewEvents[k].diff = Diff(TieBreak(code))
                   /\ NewEvents[k].type = ClaimedGrade(Diff(TieBreak(code)))
             /\ (/\ PendingCandidates(code) # {}
                 /\ InGradeWindow(Diff(TieBreak(code))))
                   => Len(NewEvents) = 1]_vars

\* three key-downs at clock 300 of the tie chart: note 3 (lane 0) went before
\* note 2 (lane 1), both on time, then note 1 before note 4, both on lane 0
\* and 100 ms away; note 4 is still Pending
C36_Witness ==
    /\ hitObjects = TieScenario.hitObjects
    /\ [k \in DOMAIN Events |-> Events[k].idx] = << 3, 2, 1 >>
    /\ \A k \in DOMAIN Events : Events[k].time = 300
    /\ 4 \notin state.processedIndices


\* the control a raw 4K column is played with
ControlOfColumn(c) ==
    CASE c = 0 -> "KeyD"
      [] c = 1 -> "KeyF"
      [] c = 2 -> "KeyJ"
      [] c = 3 -> "KeyK"

\* C37: in a chart decoded with circleSize = 4, every note with x in 0..511
\* has a lane of the control of its raw column floor(x * 4 / 512): D for
\* column 0, F for 1, J for 2, K for 3, by INPUT_MAPPING; so all notes of one
\* raw column are in the lanes of one control.
C37_ColumnOnOneControl ==
    (Decoded /\ parser.circleSize = Num(4)) =>
       \A i \in DOMAIN Timeline :
          LET n == Timeline[i]
          IN  (~ IsNaN(n.x) /\ Val(n.x) \in 0 .. 511) =>
                 /\ ~ IsNaN(n.column)
                 /\ Val(n.column)
                       \in ControlLanes(ControlOfColumn((Val(n.x) * 4) \div 512))

\* a decoded 4K chart with two notes of raw column 0 on the two lanes of
\* control D, 5 and 4, and a note of raw column 3 on a lane of control K
C37_Witness ==
    /\ Decoded
    /\ parser.circleSize = Num(4)
    /\ \E i, j, k \in DOMAIN Timeline :
          /\ Timeline[i].x = Num(64) /\ Timeline[i].column = Num(5)
          /\ Timeline[j].x = Num(64) /\ Timeline[j].column = Num(4)
          /\ Timeline[k].x = Num(448)
          /\ Val(Timeline[k].column) \in ControlLanes("KeyK")


\* every file of the batch decodes
BatchDecodes(files) == \A k \in DOMAIN files : ~ Unloadable(files[k])

\* C38: a multi-file upload is all-or-nothing. While the batch is being
\* parsed the library and the selected index stay what they were when the
\* upload started; when the upload ends and some file of the batch did not
\* decode, the library and the selected index are still what they were; when
\* it ends and every file decoded, the library is the old one followed by one
\* chart per file, in file order.
C38_UploadAllOrNothing ==
    [][Uploading =>
        LET u == app.upload[1]
            n == Len(u.library)
        IN  IF app'.upload # << >>
            THEN /\ app'.library = u.library
                 /\ app'.selectedSongIndex = app.selectedSongIndex
            ELSE IF BatchDecodes(app.batch)
            THEN /\ Len(app'.library) = n + Len(app.batch)
                 /\ \A k \in 1 .. n : app'.library[k] = u.library[k]
                 /\ \A k \in DOMAIN app.batch :
                        app'.library[n + k].of = app.batch[k]
            ELSE /\ app'.library = u.library
                 /\ app'.selectedSongIndex = app.selectedSongIndex]_vars

\* an upload of two files has ended on its second file, which has no chart
\* text, after the first one had decoded: the library holds the demo chart
\* only and the selection is where it was
C38_Witness ==
    /\ ~ Uploading
    /\ Len(app.batch) = 2
    /\ ~ Unloadable(app.batch[1])
    /\ app.batch[2].osu = "absent"
    /\ app.error # << >>
    /\ app.library = << DemoChart >>
    /\ app.selectedSongIndex = 0


\* the selected index names a chart of the library
SelectionExists ==
    /\ app.selectedSongIndex >= 0
    /\ app.selectedSongIndex < Len(app.library)

\* C39: whenever the library is not empty the selected index is the index of
\* one of its charts, whatever the demo initialisation, the uploads (ended
\* well or not) and the selections have done; the game is entered, and is
\* being played, with an existing chart only.
C39_SelectionInLibrary ==
    /\ app.library # << >> => SelectionExists
    /\ Playing => SelectionExists

\* the demo initialisation has failed, an upload of two files has put two
\* charts in the library and selected the second, and the game has been
\* entered with it while a further upload is in flight
C39_Witness ==
    /\ app.demo = "rejected"
    /\ Len(app.library) = 2
    /\ app.selectedSongIndex = 1
    /\ Playing
    /\ Uploading

=============================================================================
